---- MODULE Spec2Model ----
(***************************************************************************)
(* A model of runbyte-mcp: the Sandbox FS directory with its quotas, and   *)
(* the session manager with its client hub, catalog-change notifications   *)
(* and the generated servers/ tree.                                        *)
(***************************************************************************)
EXTENDS Integers, Sequences, FiniteSets, TLC

(***************************************************************************)
(* Bounds of the model.                                                    *)
(***************************************************************************)
\* longest content a sandbox write is tried with
MaxContentLen == 3
\* how many times a run removes a directory through DeleteFile
MaxDirRemovals == 2

(***************************************************************************)
(* Sandbox FS: one Directory (DirectoryConfig, Stats) and the files under  *)
(* its root.                                                               *)
(***************************************************************************)
\* DirectoryConfig.MaxFileSize, MaxFiles, MaxTotalSize of the modelled directory
MaxFileSize == 2
MaxFiles == 2
MaxTotalSize == 3

Chars == {"a"}
Contents == UNION {[1..n -> Chars] : n \in 0..MaxContentLen}

\* the sizes os.Stat reports for a directory (file-system dependent)
DirSizes == {0, 2}

\* relative paths below the root, as their segments; <<>> is the root itself
NodePaths == {<<>>, <<"f">>, <<"g">>, <<"d">>, <<"d", "h">>}
\* the relative paths the operations are called with
InputPaths == NodePaths \cup {<<"..", "f">>}

NoNode == [kind |-> "none", content |-> <<>>]
DirNode == [kind |-> "dir", content |-> <<>>]
FileNode(c) == [kind |-> "file", content |-> c]

VARIABLES
    nodes,        \* the disk below (and at) config.Root: path -> node
    stats,        \* Directory.stats
    dirRemovals,  \* directories removed so far (bounds the run)
    fsRet         \* the last Sandbox FS operation and what it returned

fsVars == <<nodes, stats, dirRemovals, fsRet>>

\* the state of the session manager (used from the session part on)
VARIABLES
    upstream,          \* the tool list each downstream server advertises now
    conns,             \* the mcp.ClientSession to each server: none, open, closed
    closeInvoked,      \* the clients McpClient.Close was called on
    hubClients,        \* the keys of McpClientHub.clients
    hubTools,          \* McpClient.tools of each client
    cachedTools,       \* McpClientHub.cachedTools (nil, or the grouped map)
    onToolsRefreshed,  \* McpClientHub.onToolsRefreshed is set
    sessions,          \* the keys of Manager.sessions
    createPc,          \* where GetOrCreateSession(SessionID) stands
    createRet,         \* what GetOrCreateSession returned
    deleteRet,         \* what the last DeleteSession returned, and from which state
    bundleExists,      \* session.BundleDir (with servers/ in it) is on disk
    serverDirs,        \* BundleDir/servers/<s> on disk
    sessionMu,         \* the holder of SessionContext.mu (0: free)
    workers,           \* the worker goroutines
    refreshSeq,        \* refreshes that replaced a catalog so far
    explicitCalls      \* direct refresh calls so far (bounds the run)

sessVars == <<upstream, conns, closeInvoked, hubClients, hubTools, cachedTools,
              onToolsRefreshed, sessions, createPc, createRet, deleteRet,
              bundleExists, serverDirs, sessionMu, workers, refreshSeq,
              explicitCalls>>

\* callers of McpClientHub.Tools and the hub's lock
VARIABLES
    hubMu,   \* the holder of the write lock McpClientHub.mu (0: free)
    calls    \* the callers of McpClientHub.Tools

hubCallVars == <<hubMu, calls>>

\* a pure function of the program applied to one input
VARIABLES
    pureIn,   \* the input
    pureOut   \* what the function returned for it (NoOut: not applied yet)

pureVars == <<pureIn, pureOut>>

\* a list_directory("/servers/<s>") request of the session
VARIABLES
    lister   \* where the handler stands, what it has read and what it printed

listVars == <<lister>>

\* an execute_code request of the session
VARIABLES
    exec,       \* where the handler stands, the code it runs and what it returned
    elapsed,    \* time since the plugin call began, in ticks
    cancelled   \* the inbound request context is cancelled

execVars == <<exec, elapsed, cancelled>>

\* the Sandbox FS as the sandbox and the tools use it
VARIABLES
    readOnly,   \* DirectoryConfig.ReadOnly of the directory
    fsData      \* what the last ReadFile or ListFiles returned

sfsVars == <<readOnly, fsData>>

\* concurrent GetOrCreateSession calls for one session id
VARIABLES
    managerMu,   \* the holder of the write lock Manager.mu (0: free)
    registry,    \* m.sessions[SessionID]: the session object (0: none)
    created,     \* the session objects whose setup was completed
    nextObj,     \* the next session object
    getters      \* the callers of GetOrCreateSession

mgrVars == <<managerMu, registry, created, nextObj, getters>>

\* refreshes of the hub's catalogs
VARIABLES
    refreshed,   \* per server: the refreshes that succeeded since its tool list
                 \* last changed (counted up to MaxCounted)
    refresher    \* a RefreshServerTools call in progress, step by step

refreshVars == <<refreshed, refresher>>

\* the work directories of the bundler
VARIABLES
    workDirs,    \* the work IDs whose directory <bundle>/work/<id> exists
    invocations  \* the execute_code invocations, step by step

workVars == <<workDirs, invocations>>

\* what a refresh through the hub leaves alone
auxButRefreshed == <<hubCallVars, pureVars, listVars, execVars, sfsVars, mgrVars,
                     refresher, workVars>>

\* what the session and Sandbox FS actions leave alone
auxVars == <<hubCallVars, pureVars, listVars, execVars, sfsVars, mgrVars,
             refreshVars, workVars>>

vars == <<fsVars, sessVars, auxVars>>

Parent(p) == SubSeq(p, 1, Len(p) - 1)
Prefixes(p) == {SubSeq(p, 1, n) : n \in 0..Len(p)}
Children(p) == {q \in NodePaths : Len(q) = Len(p) + 1 /\ Parent(q) = p}

\* strings.Contains(relPath, "..") on the modelled paths
validatePath(relPath) ==
    IF \E i \in 1..Len(relPath) : relPath[i] = ".."
    THEN [err |-> "path traversal not allowed", full |-> <<>>]
    ELSE [err |-> "", full |-> relPath]

\* os.Stat succeeds on a path
StatOk(ns, p) == ns[p].kind # "none"
\* info.Size(): the length of a file, dsz for a directory
StatSize(ns, p, dsz) == IF ns[p].kind = "file" THEN Len(ns[p].content) ELSE dsz

\* os.MkdirAll(dir): fails when a path component is a file
MkdirAllOk(ns, dir) == \A q \in Prefixes(dir) : ns[q].kind # "file"
MkdirAll(ns, dir) ==
    [q \in NodePaths |-> IF q \in Prefixes(dir) THEN DirNode ELSE ns[q]]

\* filepath.Walk over the root, counting what is not a directory
WalkFiles(ns) == {p \in NodePaths : ns[p].kind = "file"}
RECURSIVE SumSizes(_, _)
SumSizes(ns, ps) ==
    IF ps = {} THEN 0
    ELSE LET p == CHOOSE q \in ps : TRUE
         IN Len(ns[p].content) + SumSizes(ns, ps \ {p})
RECURSIVE MaxSize(_, _)
MaxSize(ns, ps) ==
    IF ps = {} THEN 0
    ELSE LET p == CHOOSE q \in ps : TRUE
             m == MaxSize(ns, ps \ {p})
         IN IF Len(ns[p].content) > m THEN Len(ns[p].content) ELSE m

recalculateStats(ns) ==
    [TotalBytes |-> SumSizes(ns, WalkFiles(ns)),
     FileCount |-> Cardinality(WalkFiles(ns)),
     MaxFileSize |-> MaxSize(ns, WalkFiles(ns))]

\* NewSandboxFileSystem: os.MkdirAll(cfg.Root) on a fresh root, then the walk
EmptyRoot == [p \in NodePaths |-> IF p = <<>> THEN DirNode ELSE NoNode]


FsReturn(op, p, e) == [op |-> op, path |-> p, err |-> e]

\* the stats update at the end of a successful Directory.WriteFile
WriteStats(st, contentSize, existingSize) ==
    [TotalBytes |-> st.TotalBytes + contentSize - existingSize,
     FileCount |-> IF existingSize = 0 THEN st.FileCount + 1 ELSE st.FileCount,
     MaxFileSize |-> IF contentSize > st.MaxFileSize THEN contentSize
                     ELSE st.MaxFileSize]

\* Directory.WriteFile(relPath, content), under d.mu
WriteFile(relPath, content) ==
    \E dsz \in DirSizes :
      LET v == validatePath(relPath)
          p == v.full
          contentSize == Len(content)
          existingSize == IF StatOk(nodes, p) THEN StatSize(nodes, p, dsz) ELSE 0
          newTotal == stats.TotalBytes + contentSize - existingSize
          \* filepath.Dir of the root is outside the modelled tree
          dirOk == p = <<>> \/ MkdirAllOk(nodes, Parent(p))
          made == IF p = <<>> THEN nodes ELSE MkdirAll(nodes, Parent(p))
      IN /\ UNCHANGED dirRemovals
         /\ UNCHANGED <<sessVars, auxVars>>
         /\ IF v.err # ""
            THEN /\ fsRet' = FsReturn("write", relPath, v.err)
                 /\ UNCHANGED <<nodes, stats>>
            ELSE IF contentSize > MaxFileSize
            THEN /\ fsRet' = FsReturn("write", relPath, "file size exceeds limit")
                 /\ UNCHANGED <<nodes, stats>>
            ELSE IF existingSize = 0 /\ stats.FileCount >= MaxFiles
            THEN /\ fsRet' = FsReturn("write", relPath, "file count limit reached")
                 /\ UNCHANGED <<nodes, stats>>
            ELSE IF newTotal > MaxTotalSize
            THEN /\ fsRet' = FsReturn("write", relPath, "total size limit would be exceeded")
                 /\ UNCHANGED <<nodes, stats>>
            ELSE IF ~dirOk
            THEN /\ fsRet' = FsReturn("write", relPath, "failed to create directory")
                 /\ UNCHANGED <<nodes, stats>>
            ELSE IF made[p].kind = "dir"
            THEN /\ fsRet' = FsReturn("write", relPath, "failed to write file")
                 /\ nodes' = made
                 /\ UNCHANGED stats
            ELSE /\ fsRet' = FsReturn("write", relPath, "")
                 /\ nodes' = [made EXCEPT ![p] = FileNode(content)]
                 /\ stats' = WriteStats(stats, contentSize, existingSize)

\* the stats update at the end of a successful Directory.DeleteFile
DeleteStats(st, size) ==
    [st EXCEPT !.FileCount = st.FileCount - 1, !.TotalBytes = st.TotalBytes - size]

\* Directory.DeleteFile(relPath), under d.mu
DeleteFile(relPath) ==
    \E dsz \in DirSizes :
      LET v == validatePath(relPath)
          p == v.full
      IN /\ UNCHANGED <<sessVars, auxVars>>
         /\ IF v.err # ""
            THEN /\ fsRet' = FsReturn("delete", relPath, v.err)
                 /\ UNCHANGED <<nodes, stats, dirRemovals>>
            ELSE IF ~StatOk(nodes, p)
            THEN /\ fsRet' = FsReturn("delete", relPath, "file not found")
                 /\ UNCHANGED <<nodes, stats, dirRemovals>>
            ELSE IF nodes[p].kind = "dir" /\ \E q \in Children(p) : StatOk(nodes, q)
            THEN /\ fsRet' = FsReturn("delete", relPath, "failed to delete file")
                 /\ UNCHANGED <<nodes, stats, dirRemovals>>
            ELSE /\ nodes[p].kind = "dir" => dirRemovals < MaxDirRemovals
                 /\ dirRemovals' = IF nodes[p].kind = "dir" THEN dirRemovals + 1
                                   ELSE dirRemovals
                 /\ fsRet' = FsReturn("delete", relPath, "")
                 /\ nodes' = [nodes EXCEPT ![p] = NoNode]
                 /\ stats' = DeleteStats(stats, StatSize(nodes, p, dsz))


(***************************************************************************)
(* Tools, catalogs and the generated servers/<s>/ tree.                    *)
(***************************************************************************)
Servers == {"s1", "s2"}

\* tool names, as their characters
ToolGetX == <<"g", "_", "x">>
ToolPut == <<"p">>
ToolBad == <<"b">>
ToolExport == <<"e", "x", "p", "o", "r", "t">>

\* the tool lists a downstream server may advertise
Catalogs == {<<ToolPut>>, <<ToolGetX, ToolPut>>, <<ToolExport, ToolGetX>>,
             <<ToolPut, ToolBad>>}

\* tools whose input schema has a "type" that is neither a string nor a list:
\* SchemaConverter.ConvertSchema returns "invalid type format"
InvalidTypeFormat == {ToolBad}
ConvertSchemaOk(tool) == tool \notin InvalidTypeFormat

\* the filter of NewMcpClient and of the two refreshes
RECURSIVE filterTools(_)
filterTools(tools) ==
    IF tools = <<>> THEN <<>>
    ELSE IF Head(tools) = ToolExport THEN filterTools(Tail(tools))
    ELSE <<Head(tools)>> \o filterTools(Tail(tools))

ToUpper(c) ==
    CASE c = "g" -> "G" [] c = "x" -> "X" [] c = "p" -> "P" [] c = "b" -> "B"
      [] c = "e" -> "E" [] c = "o" -> "O" [] c = "r" -> "R" [] c = "t" -> "T"
      [] OTHER -> c

\* strings.Split(s, sep)
RECURSIVE Split(_, _)
Split(s, sep) ==
    IF \A i \in 1..Len(s) : s[i] # sep THEN <<s>>
    ELSE LET i == CHOOSE k \in 1..Len(s) :
                    s[k] = sep /\ \A j \in 1..(k - 1) : s[j] # sep
         IN <<SubSeq(s, 1, i - 1)>> \o Split(SubSeq(s, i + 1, Len(s)), sep)

RECURSIVE Capitalized(_)
Capitalized(parts) ==
    IF parts = <<>> THEN <<>>
    ELSE LET part == Head(parts)
         IN (IF Len(part) > 0 THEN <<ToUpper(part[1])>> \o Tail(part) ELSE <<>>)
            \o Capitalized(Tail(parts))

\* session.toCamelCase
toCamelCase(s) ==
    LET parts == Split(s, "_")
    IN parts[1] \o Capitalized(Tail(parts))

FunctionFileName(tool) == toCamelCase(tool) \o <<".ts">>
IndexFileName == <<"i", "n", "d", "e", "x", ".ts">>

\* what GenerateFunctionFile and GenerateServerIndexFile put in a file
FunctionFile(server, tool) ==
    [kind |-> "function", server |-> server, tool |-> tool, tools |-> <<>>]
ServerIndexFile(server, tools) ==
    [kind |-> "index", server |-> server, tool |-> <<>>, tools |-> tools]

\* a directory on disk: absent, or the files in it
NoDir == [exists |-> FALSE, files |-> {}]
EmptyDir == [exists |-> TRUE, files |-> {}]
\* os.WriteFile into a directory
PutFile(dir, name, content) ==
    [dir EXCEPT !.files = {f \in dir.files : f.name # name}
                            \cup {[name |-> name, content |-> content]}]
FileNames(dir) == {f.name : f \in dir.files}

\* the loop over the tools of initializeSessionBundleDir and of
\* regenerateLibForServer, run to its end
RECURSIVE WriteFunctionFiles(_, _, _)
WriteFunctionFiles(dir, server, tools) ==
    IF tools = <<>> THEN dir
    ELSE WriteFunctionFiles(
             PutFile(dir, FunctionFileName(Head(tools)), FunctionFile(server, Head(tools))),
             server, Tail(tools))

\* the server directory a generation that ran to its end leaves
ServerTree(server, tools) ==
    PutFile(WriteFunctionFiles(EmptyDir, server, tools), IndexFileName,
            ServerIndexFile(server, tools))

GeneratesOk(tools) == \A i \in 1..Len(tools) : ConvertSchemaOk(tools[i])

(***************************************************************************)
(* The session manager, the client hub of its session, the downstream      *)
(* servers and the workers handleToolsChanged spawns.                      *)
(***************************************************************************)
\* goroutines handleToolsChanged spawns in a run (one per notification)
MaxWorkers == 2
\* direct calls of RefreshServerTools / RefreshAllServerTools in a run
MaxExplicit == 1

SessionID == "sid"
Workers == 1..MaxWorkers


NilCache == [valid |-> FALSE, tools |-> <<>>]
IdleWorker == [pc |-> "idle", server |-> "", tools |-> <<>>, i |-> 0, res |-> ""]

\* most execute_code invocations running together
MaxInvocations == 2
Invocations == 1..MaxInvocations
\* the work IDs generateWorkID can return (8 random bytes, in hex)
WorkIDs == {"00000000000000a1", "00000000000000b2"}
IdleInvocation == [pc |-> "idle", workID |-> "", sb |-> "none", err |-> ""]

IdleRefresher == [pc |-> "idle", server |-> "", ret |-> ""]

IdleLister == [pc |-> "idle", server |-> "", seen |-> <<>>, cur |-> <<>>,
               out |-> <<>>]

\* user code: it loops for ever, or runs some steps and ends by returning or
\* by throwing
NoCode == [loops |-> FALSE, steps |-> 0, ends |-> "returns"]
IdleExec == [pc |-> "idle", code |-> NoCode, toolErr |-> FALSE, ret |-> ""]

\* goroutines that refer to the same unknown session id at the same time
MaxGetters == 3
Getters == 1..MaxGetters
\* ret: the session object returned (0: none yet, or nil with an error)
IdleGetter == [pc |-> "idle", ret |-> 0, err |-> ""]

\* nothing read or listed
NoData == [content |-> <<>>, files |-> {}]

\* no pure function is being applied
NoInput == [fn |-> "none"]
NoOut == [fn |-> "none"]

\* goroutines calling McpClientHub.Tools at the same time
MaxCallers == 2
Callers == 1..MaxCallers
\* an empty map (make(map[string][]*mcp.Tool))
EmptyMap == [s \in {} |-> <<>>]
IdleCall == [pc |-> "idle", result |-> EmptyMap, ret |-> EmptyMap]

\* a server process with no session yet, over a fresh sandbox directory
SessInit ==
    /\ nodes = EmptyRoot
    /\ stats = recalculateStats(EmptyRoot)
    /\ dirRemovals = 0
    /\ fsRet = [op |-> "new", path |-> <<>>, err |-> ""]
    /\ upstream \in [Servers -> Catalogs]
    /\ conns = [s \in Servers |-> "none"]
    /\ closeInvoked = {}
    /\ hubClients = {}
    /\ hubTools = [s \in Servers |-> <<>>]
    /\ cachedTools = NilCache
    /\ onToolsRefreshed = FALSE
    /\ sessions = {}
    /\ createPc = "none"
    /\ createRet = ""
    /\ deleteRet = [err |-> "", from |-> ""]
    /\ bundleExists = FALSE
    /\ serverDirs = [s \in Servers |-> NoDir]
    /\ sessionMu = 0
    /\ workers = [w \in Workers |-> IdleWorker]
    /\ refreshSeq = 0
    /\ explicitCalls = 0
    /\ hubMu = 0
    /\ calls = [c \in Callers |-> IdleCall]
    /\ lister = IdleLister
    /\ readOnly = FALSE
    /\ fsData = NoData
    /\ refreshed = [s \in Servers |-> 0]
    /\ refresher = IdleRefresher
    /\ workDirs = {}
    /\ invocations = [i \in Invocations |-> IdleInvocation]
    /\ managerMu = 0
    /\ registry = 0
    /\ created = {}
    /\ nextObj = 1
    /\ getters = [c \in Getters |-> IdleGetter]
    /\ exec = IdleExec
    /\ elapsed = 0
    /\ cancelled = FALSE
    /\ pureIn = NoInput
    /\ pureOut = NoOut

\* NewSandboxFileSystem on a fresh root, with no session in the process
FsInit ==
    /\ nodes = EmptyRoot
    /\ stats = recalculateStats(EmptyRoot)
    /\ dirRemovals = 0
    /\ fsRet = [op |-> "new", path |-> <<>>, err |-> ""]
    /\ upstream = [s \in Servers |-> <<ToolPut>>]
    /\ conns = [s \in Servers |-> "none"]
    /\ closeInvoked = {}
    /\ hubClients = {}
    /\ hubTools = [s \in Servers |-> <<>>]
    /\ cachedTools = NilCache
    /\ onToolsRefreshed = FALSE
    /\ sessions = {}
    /\ createPc = "none"
    /\ createRet = ""
    /\ deleteRet = [err |-> "", from |-> ""]
    /\ bundleExists = FALSE
    /\ serverDirs = [s \in Servers |-> NoDir]
    /\ sessionMu = 0
    /\ workers = [w \in Workers |-> IdleWorker]
    /\ refreshSeq = 0
    /\ explicitCalls = 0
    /\ hubMu = 0
    /\ calls = [c \in Callers |-> IdleCall]
    /\ lister = IdleLister
    /\ readOnly = FALSE
    /\ fsData = NoData
    /\ refreshed = [s \in Servers |-> 0]
    /\ refresher = IdleRefresher
    /\ workDirs = {}
    /\ invocations = [i \in Invocations |-> IdleInvocation]
    /\ managerMu = 0
    /\ registry = 0
    /\ created = {}
    /\ nextObj = 1
    /\ getters = [c \in Getters |-> IdleGetter]
    /\ exec = IdleExec
    /\ elapsed = 0
    /\ cancelled = FALSE
    /\ pureIn = NoInput
    /\ pureOut = NoOut

\* McpClientHub.Close: Close on every client, whatever each returns
hubClose(cs) == [s \in Servers |-> IF s \in hubClients THEN "closed" ELSE cs[s]]

\* McpClientHub.Tools: the cached map, or a map built from every client
Tools == IF cachedTools.valid THEN cachedTools.tools
         ELSE [s \in hubClients |-> hubTools[s]]

\* McpClientHub.Connect inside GetOrCreateSession: the clients in opened are
\* created before NewMcpClient fails for failing (none fails when all open);
\* leak: the failing client had connected and failed in ListTools
Connect(opened, failing, leak) ==
    /\ createPc = "none"
    /\ failing \cap opened = {}
    /\ Cardinality(failing) = (IF opened = Servers THEN 0 ELSE 1)
    /\ conns' = [s \in Servers |->
                   IF s \in opened \/ (s \in failing /\ leak) THEN "open"
                   ELSE conns[s]]
    /\ hubClients' = opened
    /\ hubTools' = [s \in Servers |->
                      IF s \in opened THEN filterTools(upstream[s]) ELSE hubTools[s]]
    /\ IF failing = {}
       THEN /\ createPc' = "connected"
            /\ UNCHANGED createRet
       ELSE /\ createPc' = "failed"
            /\ createRet' = "failed to connect client hub"
    /\ UNCHANGED <<fsVars, auxVars, upstream, closeInvoked, cachedTools, onToolsRefreshed, sessions,
                   deleteRet, bundleExists, serverDirs, sessionMu, workers,
                   refreshSeq, explicitCalls>>

\* initializeSessionBundleDir without the os.RemoveAll(bundleDir) of its
\* error paths
initializeSessionBundleDirNoCleanup(allTools, ioErr) ==
    IF ioErr \/ \E s \in DOMAIN allTools : ~GeneratesOk(allTools[s])
    THEN [err |-> "failed to initialize session bundle directory",
          exists |-> TRUE, dirs |-> [s \in Servers |-> NoDir]]
    ELSE [err |-> "", exists |-> TRUE,
          dirs |-> [s \in Servers |->
                      IF s \in DOMAIN allTools THEN ServerTree(s, allTools[s])
                      ELSE NoDir]]

\* what initializeSessionBundleDir leaves on disk and returns: every error
\* path removes the bundle directory
initializeSessionBundleDir(allTools, ioErr) ==
    IF ioErr \/ \E s \in DOMAIN allTools : ~GeneratesOk(allTools[s])
    THEN [err |-> "failed to initialize session bundle directory",
          exists |-> FALSE, dirs |-> [s \in Servers |-> NoDir]]
    ELSE [err |-> "", exists |-> TRUE,
          dirs |-> [s \in Servers |->
                      IF s \in DOMAIN allTools THEN ServerTree(s, allTools[s])
                      ELSE NoDir]]

\* GetOrCreateSession, after Connect: NewSessionContext and
\* initializeSessionBundleDir, with clientHub.Close() when it fails
CreateInit(ioErr) ==
    /\ createPc = "connected"
    /\ LET allTools == Tools
           r == initializeSessionBundleDir(allTools, ioErr)
       IN /\ cachedTools' = [valid |-> TRUE, tools |-> allTools]
          /\ bundleExists' = r.exists
          /\ serverDirs' = r.dirs
          /\ IF r.err = ""
             THEN /\ createPc' = "inited"
                  /\ UNCHANGED <<createRet, conns, closeInvoked>>
             ELSE /\ createPc' = "failed"
                  /\ createRet' = r.err
                  /\ conns' = hubClose(conns)
                  /\ closeInvoked' = closeInvoked \cup hubClients
    /\ UNCHANGED <<fsVars, auxVars, upstream, hubClients, hubTools, onToolsRefreshed, sessions,
                   deleteRet, sessionMu, workers, refreshSeq, explicitCalls>>

\* GetOrCreateSession: clientHub.SetToolsRefreshedCallback(...)
CreateSubscribe ==
    /\ createPc = "inited"
    /\ onToolsRefreshed' = TRUE
    /\ createPc' = "subscribed"
    /\ UNCHANGED <<fsVars, auxVars, upstream, conns, closeInvoked, hubClients, hubTools, cachedTools,
                   sessions, createRet, deleteRet, bundleExists, serverDirs,
                   sessionMu, workers, refreshSeq, explicitCalls>>

\* GetOrCreateSession: m.sessions[sessionID] = session; return session, nil
CreateRegister ==
    /\ createPc = "subscribed"
    /\ sessions' = sessions \cup {SessionID}
    /\ createPc' = "live"
    /\ createRet' = "ok"
    /\ UNCHANGED <<fsVars, auxVars, upstream, conns, closeInvoked, hubClients, hubTools, cachedTools,
                   onToolsRefreshed, deleteRet, bundleExists, serverDirs,
                   sessionMu, workers, refreshSeq, explicitCalls>>

\* Manager.DeleteSession(SessionID); closeErrs: the clients whose Close
\* returns an error
DeleteSession(closeErrs) ==
    /\ createPc \in {"none", "failed", "live", "closed"}
    /\ IF SessionID \notin sessions
       THEN /\ closeErrs = {}
            /\ deleteRet' = [err |-> "session not found", from |-> createPc]
            /\ UNCHANGED <<conns, closeInvoked, sessions, createPc, bundleExists,
                           serverDirs>>
       ELSE /\ closeErrs \subseteq hubClients
            /\ conns' = hubClose(conns)
            /\ closeInvoked' = closeInvoked \cup hubClients
            /\ IF closeErrs # {}
               THEN /\ deleteRet' = [err |-> "failed to close client hub",
                                     from |-> createPc]
                    /\ UNCHANGED <<sessions, createPc, bundleExists, serverDirs>>
               ELSE /\ deleteRet' = [err |-> "", from |-> createPc]
                    /\ bundleExists' = FALSE
                    /\ serverDirs' = [s \in Servers |-> NoDir]
                    /\ sessions' = sessions \ {SessionID}
                    /\ createPc' = "closed"
    /\ UNCHANGED <<fsVars, auxVars, upstream, hubClients, hubTools, cachedTools, onToolsRefreshed,
                   createRet, sessionMu, workers, refreshSeq, explicitCalls>>

\* one more refresh since the last change
MaxCounted == 2
Counted(n) == IF n < MaxCounted THEN n + 1 ELSE n

\* the hub of the session exists (Connect has returned without error)
HubUp == createPc \in {"connected", "inited", "subscribed", "live"}

FreeWorkers == {w \in Workers : workers[w].pc = "idle"}

\* a downstream server changes its tool list and notifies its client:
\* ToolListChangedHandler -> handleToolsChanged(server) -> go func()
ToolListChanged(server, catalog) ==
    /\ HubUp
    /\ server \in hubClients
    /\ conns[server] = "open"
    /\ catalog # upstream[server]
    /\ FreeWorkers # {}
    /\ LET w == CHOOSE x \in FreeWorkers : \A y \in FreeWorkers : x <= y
       IN workers' = [workers EXCEPT ![w] = [IdleWorker EXCEPT !.pc = "refresh",
                                                               !.server = server]]
    /\ upstream' = [upstream EXCEPT ![server] = catalog]
    /\ refreshed' = [refreshed EXCEPT ![server] = 0]
    /\ UNCHANGED <<fsVars, auxButRefreshed, conns, closeInvoked, hubClients, hubTools, cachedTools,
                   onToolsRefreshed, sessions, createPc, createRet, deleteRet,
                   bundleExists, serverDirs, sessionMu, refreshSeq, explicitCalls>>

\* the error McpClientHub.RefreshServerTools returns ("" for nil); listOk: the
\* ListTools call to the server answers within the deadline
RefreshError(server, listOk) ==
    IF server \notin hubClients THEN "server not found"
    ELSE IF conns[server] # "open" \/ ~listOk THEN "failed to refresh tools"
    ELSE ""

\* RefreshServerTools without ch.cachedTools = nil
RefreshServerToolsKeepsCache(server, listOk) ==
    /\ hubMu = 0
    /\ IF RefreshError(server, listOk) = ""
       THEN /\ hubTools' = [hubTools EXCEPT ![server] = filterTools(upstream[server])]
            /\ refreshSeq' = refreshSeq + 1
            /\ UNCHANGED cachedTools
       ELSE UNCHANGED <<hubTools, cachedTools, refreshSeq>>

\* RefreshServerTools that adds the fetched tools to the ones the client holds
RefreshServerToolsAppends(server, listOk) ==
    /\ hubMu = 0
    /\ IF RefreshError(server, listOk) = ""
       THEN /\ hubTools' = [hubTools EXCEPT ![server] =
                               @ \o filterTools(upstream[server])]
            /\ cachedTools' = NilCache
            /\ refreshSeq' = refreshSeq + 1
       ELSE UNCHANGED <<hubTools, cachedTools, refreshSeq>>

\* RefreshServerTools that drops the grouped cache before it fetches the tools
RefreshServerToolsInvalidatesFirst(server, listOk) ==
    /\ hubMu = 0
    /\ cachedTools' = NilCache
    /\ IF RefreshError(server, listOk) = ""
       THEN /\ hubTools' = [hubTools EXCEPT ![server] = filterTools(upstream[server])]
            /\ refreshSeq' = refreshSeq + 1
       ELSE UNCHANGED <<hubTools, refreshSeq>>

\* McpClientHub.RefreshServerTools, under ch.mu
RefreshServerTools(server, listOk) ==
    /\ hubMu = 0
    /\ IF RefreshError(server, listOk) = ""
       THEN /\ hubTools' = [hubTools EXCEPT ![server] = filterTools(upstream[server])]
            /\ cachedTools' = NilCache
            /\ refreshSeq' = refreshSeq + 1
       ELSE UNCHANGED <<hubTools, cachedTools, refreshSeq>>

Finished(wk, res) == [IdleWorker EXCEPT !.pc = "done", !.server = wk.server, !.res = res]

\* the worker of handleToolsChanged: ch.RefreshServerTools(ctx, serverName)
WorkerRefresh(w, listOk) ==
    /\ workers[w].pc = "refresh"
    /\ RefreshServerTools(workers[w].server, listOk)
    /\ workers' = [workers EXCEPT ![w] =
           IF RefreshError(workers[w].server, listOk) = ""
           THEN [@ EXCEPT !.pc = "callback"]
           ELSE Finished(@, "failed to auto-refresh")]
    /\ refreshed' = IF RefreshError(workers[w].server, listOk) = ""
                    THEN [refreshed EXCEPT ![workers[w].server] = Counted(@)]
                    ELSE refreshed
    /\ UNCHANGED <<fsVars, auxButRefreshed, upstream, conns, closeInvoked, hubClients, onToolsRefreshed,
                   sessions, createPc, createRet, deleteRet, bundleExists,
                   serverDirs, sessionMu, explicitCalls>>

\* the worker reads ch.onToolsRefreshed and calls it when it is set
WorkerCallback(w) ==
    /\ workers[w].pc = "callback"
    /\ workers' = [workers EXCEPT ![w] =
           IF onToolsRefreshed THEN [@ EXCEPT !.pc = "regenerate"]
           ELSE Finished(@, "no callback")]
    /\ UNCHANGED <<fsVars, auxVars, upstream, conns, closeInvoked, hubClients, hubTools, cachedTools,
                   onToolsRefreshed, sessions, createPc, createRet, deleteRet,
                   bundleExists, serverDirs, sessionMu, refreshSeq, explicitCalls>>

\* McpClientHub.ServerTools
ServerTools(server) ==
    IF server \in hubClients THEN [ok |-> TRUE, tools |-> hubTools[server]]
    ELSE [ok |-> FALSE, tools |-> <<>>]

\* regenerateLibForServer: session.mu.Lock() and ServerTools(serverName)
RegenerateLock(w) ==
    /\ workers[w].pc = "regenerate"
    /\ sessionMu = 0
    /\ LET st == ServerTools(workers[w].server)
       IN IF st.ok
          THEN /\ sessionMu' = w
               /\ workers' = [workers EXCEPT ![w] =
                      [@ EXCEPT !.pc = "removeall", !.tools = st.tools]]
          ELSE /\ sessionMu' = 0
               /\ workers' = [workers EXCEPT ![w] = Finished(@, "server not found")]
    /\ UNCHANGED <<fsVars, auxVars, upstream, conns, closeInvoked, hubClients, hubTools, cachedTools,
                   onToolsRefreshed, sessions, createPc, createRet, deleteRet,
                   bundleExists, serverDirs, refreshSeq, explicitCalls>>

\* regenerateLibForServer: os.RemoveAll(serverDir)
RegenerateRemoveAll(w) ==
    /\ workers[w].pc = "removeall"
    /\ serverDirs' = [serverDirs EXCEPT ![workers[w].server] = NoDir]
    /\ workers' = [workers EXCEPT ![w] = [@ EXCEPT !.pc = "mkdir"]]
    /\ UNCHANGED <<fsVars, auxVars, upstream, conns, closeInvoked, hubClients, hubTools, cachedTools,
                   onToolsRefreshed, sessions, createPc, createRet, deleteRet,
                   bundleExists, sessionMu, refreshSeq, explicitCalls>>

\* the step with os.MkdirAll(serverDir) in the place of os.Mkdir: the
\* missing parents are created
RegenerateMkdirAll(w) ==
    /\ workers[w].pc = "mkdir"
    /\ serverDirs' = [serverDirs EXCEPT ![workers[w].server] = EmptyDir]
    /\ workers' = [workers EXCEPT ![w] = [@ EXCEPT !.pc = "write", !.i = 1]]
    /\ UNCHANGED <<fsVars, auxVars, upstream, conns, closeInvoked, hubClients, hubTools, cachedTools,
                   onToolsRefreshed, sessions, createPc, createRet, deleteRet,
                   bundleExists, sessionMu, refreshSeq, explicitCalls>>

\* regenerateLibForServer: os.Mkdir(serverDir), which needs BundleDir/servers
RegenerateMkdir(w) ==
    /\ workers[w].pc = "mkdir"
    /\ IF bundleExists /\ ~serverDirs[workers[w].server].exists
       THEN /\ serverDirs' = [serverDirs EXCEPT ![workers[w].server] = EmptyDir]
            /\ workers' = [workers EXCEPT ![w] = [@ EXCEPT !.pc = "write", !.i = 1]]
            /\ UNCHANGED sessionMu
       ELSE /\ workers' = [workers EXCEPT ![w] =
                   Finished(@, "failed to create server dir")]
            /\ sessionMu' = 0
            /\ UNCHANGED serverDirs
    /\ UNCHANGED <<fsVars, auxVars, upstream, conns, closeInvoked, hubClients, hubTools, cachedTools,
                   onToolsRefreshed, sessions, createPc, createRet, deleteRet,
                   bundleExists, refreshSeq, explicitCalls>>

\* regenerateLibForServer: one turn of the loop over the tools
\* (GenerateFunctionFile, os.WriteFile), or the index.ts after the loop
RegenerateWrite(w) ==
    /\ workers[w].pc = "write"
    /\ LET wk == workers[w]
           s == wk.server
           dir == serverDirs[s]
       IN IF wk.i <= Len(wk.tools)
          THEN IF ~ConvertSchemaOk(wk.tools[wk.i])
               THEN /\ workers' = [workers EXCEPT ![w] =
                           Finished(@, "failed to generate function")]
                    /\ sessionMu' = 0
                    /\ UNCHANGED serverDirs
               ELSE IF ~dir.exists
               THEN /\ workers' = [workers EXCEPT ![w] =
                           Finished(@, "failed to write function")]
                    /\ sessionMu' = 0
                    /\ UNCHANGED serverDirs
               ELSE /\ serverDirs' = [serverDirs EXCEPT ![s] =
                           PutFile(dir, FunctionFileName(wk.tools[wk.i]),
                                   FunctionFile(s, wk.tools[wk.i]))]
                    /\ workers' = [workers EXCEPT ![w] = [@ EXCEPT !.i = wk.i + 1]]
                    /\ UNCHANGED sessionMu
          ELSE IF ~dir.exists
          THEN /\ workers' = [workers EXCEPT ![w] =
                      Finished(@, "failed to write index.ts")]
               /\ sessionMu' = 0
               /\ UNCHANGED serverDirs
          ELSE /\ serverDirs' = [serverDirs EXCEPT ![s] =
                      PutFile(dir, IndexFileName, ServerIndexFile(s, wk.tools))]
               /\ workers' = [workers EXCEPT ![w] = Finished(@, "ok")]
               /\ sessionMu' = 0
    /\ UNCHANGED <<fsVars, auxVars, upstream, conns, closeInvoked, hubClients, hubTools, cachedTools,
                   onToolsRefreshed, sessions, createPc, createRet, deleteRet,
                   bundleExists, refreshSeq, explicitCalls>>

\* a direct call of McpClientHub.RefreshServerTools on the session's hub
ExplicitRefresh(server, listOk) ==
    /\ SessionID \in sessions
    /\ explicitCalls < MaxExplicit
    /\ explicitCalls' = explicitCalls + 1
    /\ RefreshServerTools(server, listOk)
    /\ refreshed' = IF RefreshError(server, listOk) = ""
                    THEN [refreshed EXCEPT ![server] = Counted(@)]
                    ELSE refreshed
    /\ UNCHANGED <<fsVars, auxButRefreshed, upstream, conns, closeInvoked, hubClients, onToolsRefreshed,
                   sessions, createPc, createRet, deleteRet, bundleExists,
                   serverDirs, sessionMu, workers>>

\* a direct call of McpClientHub.RefreshAllServerTools; listOk: the servers
\* whose ListTools answers
RefreshAllServerTools(listOk) ==
    /\ SessionID \in sessions
    /\ hubMu = 0
    /\ explicitCalls < MaxExplicit
    /\ explicitCalls' = explicitCalls + 1
    /\ hubTools' = [s \in Servers |->
                      IF s \in hubClients /\ RefreshError(s, s \in listOk) = ""
                      THEN filterTools(upstream[s]) ELSE hubTools[s]]
    /\ cachedTools' = NilCache
    /\ refreshSeq' = IF \E s \in hubClients : RefreshError(s, s \in listOk) = ""
                     THEN refreshSeq + 1 ELSE refreshSeq
    /\ refreshed' = [s \in Servers |->
                       IF s \in hubClients /\ RefreshError(s, s \in listOk) = ""
                       THEN Counted(refreshed[s]) ELSE refreshed[s]]
    /\ UNCHANGED <<fsVars, auxButRefreshed, upstream, conns, closeInvoked, hubClients, onToolsRefreshed,
                   sessions, createPc, createRet, deleteRet, bundleExists,
                   serverDirs, sessionMu, workers>>

(***************************************************************************)
(* McpClientHub.Tools, step by step, and InvalidateToolsCache.             *)
(***************************************************************************)
\* a loop in Tools that stops after its first entry
FillDoneEarly(result) == result # EmptyMap

\* the loop over ch.clients in Tools has filled every entry
FillDone(result) == DOMAIN result = hubClients

\* Tools, fast path: under RLock, return the cached map when there is one
ToolsFast(c) ==
    /\ calls[c].pc = "idle"
    /\ hubMu = 0
    /\ calls' = [calls EXCEPT ![c] =
           IF cachedTools.valid
           THEN [@ EXCEPT !.pc = "done", !.ret = cachedTools.tools]
           ELSE [@ EXCEPT !.pc = "slow"]]
    /\ UNCHANGED <<fsVars, sessVars, pureVars, listVars, execVars, sfsVars, refreshVars, workVars, mgrVars, hubMu>>

\* Tools, slow path: ch.mu.Lock() and the second look at the cache
ToolsLock(c) ==
    /\ calls[c].pc = "slow"
    /\ hubMu = 0
    /\ IF cachedTools.valid
       THEN /\ calls' = [calls EXCEPT ![c] =
                   [@ EXCEPT !.pc = "done", !.ret = cachedTools.tools]]
            /\ UNCHANGED hubMu
       ELSE /\ calls' = [calls EXCEPT ![c] =
                   [@ EXCEPT !.pc = "fill", !.result = EmptyMap]]
            /\ hubMu' = c
    /\ UNCHANGED <<fsVars, sessVars, pureVars, listVars, execVars, sfsVars, refreshVars, workVars, mgrVars>>

\* Tools, slow path: one turn of the loop result[name] = client.GetTools(),
\* or, after the loop, ch.cachedTools = result, return and unlock
ToolsFill(c) ==
    /\ calls[c].pc = "fill"
    /\ hubMu = c
    /\ LET result == calls[c].result
       IN IF FillDone(result)
          THEN /\ cachedTools' = [valid |-> TRUE, tools |-> result]
               /\ calls' = [calls EXCEPT ![c] =
                      [@ EXCEPT !.pc = "done", !.ret = result, !.result = EmptyMap]]
               /\ hubMu' = 0
               /\ UNCHANGED <<upstream, conns, closeInvoked, hubClients, hubTools,
                              onToolsRefreshed, sessions, createPc, createRet,
                              deleteRet, bundleExists, serverDirs, sessionMu,
                              workers, refreshSeq, explicitCalls>>
          ELSE /\ \E s \in hubClients \ DOMAIN result :
                     calls' = [calls EXCEPT ![c] =
                         [@ EXCEPT !.result =
                             [x \in DOMAIN result \cup {s} |->
                                 IF x = s THEN hubTools[s] ELSE result[x]]]]
               /\ UNCHANGED <<sessVars, hubMu>>
    /\ UNCHANGED <<fsVars, pureVars, listVars, execVars, sfsVars, refreshVars, workVars, mgrVars>>

\* the caller is done with the map it was given
ToolsDone(c) ==
    /\ calls[c].pc = "done"
    /\ calls' = [calls EXCEPT ![c] = IdleCall]
    /\ UNCHANGED <<fsVars, sessVars, pureVars, listVars, execVars, sfsVars, refreshVars, workVars, mgrVars, hubMu>>

\* McpClientHub.InvalidateToolsCache
InvalidateToolsCache ==
    /\ hubMu = 0
    /\ cachedTools.valid
    /\ cachedTools' = NilCache
    /\ UNCHANGED <<fsVars, auxVars, upstream, conns, closeInvoked, hubClients, hubTools,
                   onToolsRefreshed, sessions, createPc, createRet, deleteRet,
                   bundleExists, serverDirs, sessionMu, workers, refreshSeq,
                   explicitCalls>>

\* the hub of a registered session: Tools callers, notifications and their
\* refreshes, direct refreshes and invalidations
HubNext ==
    \/ \E c \in Callers : ToolsFast(c)
    \/ \E c \in Callers : ToolsLock(c)
    \/ \E c \in Callers : ToolsFill(c)
    \/ \E c \in Callers : ToolsDone(c)
    \/ InvalidateToolsCache
    \/ \E s \in Servers, c \in Catalogs : ToolListChanged(s, c)
    \/ \E w \in Workers, listOk \in BOOLEAN : WorkerRefresh(w, listOk)
    \/ \E s \in Servers, listOk \in BOOLEAN : ExplicitRefresh(s, listOk)
    \/ \E listOk \in SUBSET Servers : RefreshAllServerTools(listOk)

\* a registered session right after GetOrCreateSession returned it
HubInit ==
    /\ nodes = EmptyRoot
    /\ stats = recalculateStats(EmptyRoot)
    /\ dirRemovals = 0
    /\ fsRet = [op |-> "new", path |-> <<>>, err |-> ""]
    /\ upstream \in [Servers -> {c \in Catalogs : GeneratesOk(filterTools(c))}]
    /\ conns = [s \in Servers |-> "open"]
    /\ closeInvoked = {}
    /\ hubClients = Servers
    /\ hubTools = [s \in Servers |-> filterTools(upstream[s])]
    /\ cachedTools = [valid |-> TRUE, tools |-> hubTools]
    /\ onToolsRefreshed = TRUE
    /\ sessions = {SessionID}
    /\ createPc = "live"
    /\ createRet = "ok"
    /\ deleteRet = [err |-> "", from |-> ""]
    /\ bundleExists = TRUE
    /\ serverDirs = [s \in Servers |-> ServerTree(s, hubTools[s])]
    /\ sessionMu = 0
    /\ workers = [w \in Workers |-> IdleWorker]
    /\ refreshSeq = 0
    /\ explicitCalls = 0
    /\ hubMu = 0
    /\ calls = [c \in Callers |-> IdleCall]
    /\ lister = IdleLister
    /\ readOnly = FALSE
    /\ fsData = NoData
    /\ refreshed = [s \in Servers |-> 0]
    /\ refresher = IdleRefresher
    /\ workDirs = {}
    /\ invocations = [i \in Invocations |-> IdleInvocation]
    /\ managerMu = 0
    /\ registry = 0
    /\ created = {}
    /\ nextObj = 1
    /\ getters = [c \in Getters |-> IdleGetter]
    /\ exec = IdleExec
    /\ elapsed = 0
    /\ cancelled = FALSE
    /\ pureIn = NoInput
    /\ pureOut = NoOut

(***************************************************************************)
(* Names of the generated module files: session.toCamelCase on disk,       *)
(* strutil.ToCamelCase in list_directory and in the server's index.ts.     *)
(***************************************************************************)
\* longest tool name tried
MaxNameLen == 3
NameChars == {"g", "X", "_", "-", " "}
ToolNames == UNION {[1..n -> NameChars] : n \in 1..MaxNameLen}

\* the separators of strutil.ToPascalCase and strutil.ToCamelCase
Separators == {"_", "-", " "}

ToLower(c) == CASE c = "X" -> "x" [] c = "G" -> "g" [] OTHER -> c

\* strings.FieldsFunc(s, f): the maximal runs of characters outside seps
RECURSIVE FieldsFunc(_, _)
FieldsFunc(s, seps) ==
    IF s = <<>> THEN <<>>
    ELSE IF Head(s) \in seps THEN FieldsFunc(Tail(s), seps)
    ELSE LET n == CHOOSE k \in 1..Len(s) :
                    /\ \A j \in 1..k : s[j] \notin seps
                    /\ k = Len(s) \/ s[k + 1] \in seps
         IN <<SubSeq(s, 1, n)>> \o FieldsFunc(SubSeq(s, n + 1, Len(s)), seps)

\* strings.Join(parts, "")
RECURSIVE Join(_)
Join(parts) == IF parts = <<>> THEN <<>> ELSE Head(parts) \o Join(Tail(parts))

\* strutil.ToPascalCase
ToPascalCase(s) ==
    LET parts == FieldsFunc(s, Separators)
    IN Join([i \in 1..Len(parts) |-> <<ToUpper(parts[i][1])>> \o Tail(parts[i])])

\* strutil.ToCamelCase
ToCamelCase(s) ==
    IF s = <<>> THEN s
    ELSE IF \A i \in 1..Len(s) : s[i] \notin Separators
    THEN <<ToLower(s[1])>> \o Tail(s)
    ELSE LET pascal == ToPascalCase(s)
         IN IF pascal = <<>> THEN pascal
            ELSE <<ToLower(pascal[1])>> \o Tail(pascal)

\* the entry list_directory prints for a tool
ListedName(tool) == ToCamelCase(tool) \o <<".ts">>
\* the file that export * from './<funcName>' of the server's index.ts names
ExportedFile(tool) == ToCamelCase(tool) \o <<".ts">>

\* the three names the program derives from one tool name
GenerateNames ==
    /\ pureIn.fn = "names"
    /\ pureOut = NoOut
    /\ pureOut' = [fn |-> "names",
                   disk |-> FunctionFileName(pureIn.name),
                   listed |-> ListedName(pureIn.name),
                   exported |-> ExportedFile(pureIn.name)]
    /\ UNCHANGED <<fsVars, sessVars, hubCallVars, sfsVars, refreshVars, workVars, mgrVars, listVars, execVars, pureIn>>

(***************************************************************************)
(* A generated stub called from execute_code: renderFunction writes the    *)
(* server and tool names with %q, the script engine reads the literals     *)
(* back, callTool sends them as JSON, the host callback decodes them and   *)
(* McpClientHub.CallTool picks the client.                                  *)
(***************************************************************************)
\* longest server or tool name tried
MaxStubNameLen == 2
\* a letter, the bell character U+0007, a double quote and a backslash
StubChars == {"a", "BEL", "\"", "\\"}
StubNames == UNION {[1..n -> StubChars] : n \in 1..MaxStubNameLen}

RECURSIVE Flatten(_)
Flatten(ss) == IF ss = <<>> THEN <<>> ELSE Head(ss) \o Flatten(Tail(ss))

\* fmt.Sprintf("%q", name) without the enclosing quotes: strconv.Quote writes
\* \" and \\ for the quote and the backslash and \a for the bell
GoQuote(name) ==
    Flatten([i \in 1..Len(name) |->
               CASE name[i] = "\"" -> <<"\\", "\"">>
                 [] name[i] = "\\" -> <<"\\", "\\">>
                 [] name[i] = "BEL" -> <<"\\", "a">>
                 [] OTHER -> <<name[i]>>])

\* the value of a double-quoted string literal of the script: \" and \\ are
\* the quote and the backslash; a backslash before a character that starts
\* no escape sequence (such as a) is dropped
RECURSIVE JsStringValue(_)
JsStringValue(lit) ==
    IF lit = <<>> THEN <<>>
    ELSE IF Head(lit) = "\\" /\ Len(lit) >= 2
         THEN <<lit[2]>> \o JsStringValue(Tail(Tail(lit)))
         ELSE <<Head(lit)>> \o JsStringValue(Tail(lit))

\* JSON.stringify of a string, without the enclosing quotes
JsonStringify(str) ==
    Flatten([i \in 1..Len(str) |->
               CASE str[i] = "\"" -> <<"\\", "\"">>
                 [] str[i] = "\\" -> <<"\\", "\\">>
                 [] str[i] = "BEL" -> <<"\\", "u0007">>
                 [] OTHER -> <<str[i]>>])

\* json.Unmarshal of a JSON string into a Go string
RECURSIVE JsonUnmarshal(_)
JsonUnmarshal(js) ==
    IF js = <<>> THEN <<>>
    ELSE IF Head(js) = "\\" /\ Len(js) >= 2
         THEN <<IF js[2] = "u0007" THEN "BEL" ELSE js[2]>>
                 \o JsonUnmarshal(Tail(Tail(js)))
         ELSE <<Head(js)>> \o JsonUnmarshal(Tail(js))

\* the McpToolCall the host callback decodes when the stub rendered for tool
\* toolName of server serverName runs
StubToolCall(serverName, toolName) ==
    [ServerName |-> JsonUnmarshal(JsonStringify(JsStringValue(GoQuote(serverName)))),
     ToolName |-> JsonUnmarshal(JsonStringify(JsStringValue(GoQuote(toolName))))]

NoCall == [server |-> <<>>, tool |-> <<>>, err |-> "server not found"]

\* McpClientHub.CallTool: the client found under serverName is called with
\* toolName
CallTool(clients, serverName, toolName) ==
    IF serverName \notin clients THEN NoCall
    ELSE [server |-> serverName, tool |-> toolName, err |-> ""]

\* execute_code runs the stub of one tool of one connected server
InvokeStub ==
    /\ pureIn.fn = "stub"
    /\ pureOut = NoOut
    /\ LET toolCall == StubToolCall(pureIn.server, pureIn.tool)
       IN pureOut' = [fn |-> "stub",
                      call |-> CallTool(pureIn.clients, toolCall.ServerName,
                                        toolCall.ToolName)]
    /\ UNCHANGED <<fsVars, sessVars, hubCallVars, sfsVars, refreshVars, workVars, mgrVars, listVars, execVars, pureIn>>

\* a tool of a connected server, and the names the hub holds clients under
StubInputs ==
    {[fn |-> "stub", server |-> sv, tool |-> t, clients |-> {sv, o}] :
        sv \in StubNames, t \in StubNames, o \in StubNames}

(***************************************************************************)
(* Paths: the Sandbox FS operations (parsePath, validatePath) and the       *)
(* read_file tool.  A path is a sequence of characters; a directory name is *)
(* one character of the alphabet.                                           *)
(***************************************************************************)
\* most segments of a path tried
MaxPathSegs == 4
\* the segments tried: directory names, "..", a file name, a name holding
\* "..", "." and the empty segment
PathSegments ==
    {<<"servers">>, <<"workspace">>, <<".", ".">>, <<"x">>,
     <<"x", ".", ".", "x">>, <<".">>, <<>>}

\* strings.Join(segs, "/")
RECURSIVE JoinSlash(_)
JoinSlash(segs) ==
    IF segs = <<>> THEN <<>>
    ELSE IF Len(segs) = 1 THEN segs[1]
    ELSE segs[1] \o <<"/">> \o JoinSlash(Tail(segs))

UserPaths ==
    {lead \o JoinSlash(segs) :
        lead \in {<<>>, <<"/">>, <<".", "/">>},
        segs \in UNION {[1..n -> PathSegments] : n \in 1..MaxPathSegs}}

\* strings.HasPrefix, strings.TrimPrefix, strings.Contains
HasPrefix(str, prefix) ==
    Len(str) >= Len(prefix) /\ SubSeq(str, 1, Len(prefix)) = prefix

TrimPrefix(str, prefix) ==
    IF HasPrefix(str, prefix) THEN SubSeq(str, Len(prefix) + 1, Len(str)) ELSE str

Contains(str, sub) ==
    \E i \in 1..(Len(str) - Len(sub) + 1) : SubSeq(str, i, i + Len(sub) - 1) = sub

\* strings.Split(str, "/")
RECURSIVE SplitSlash(_)
SplitSlash(str) ==
    IF \A i \in 1..Len(str) : str[i] # "/" THEN <<str>>
    ELSE LET i == CHOOSE k \in 1..Len(str) :
                     str[k] = "/" /\ \A j \in 1..(k - 1) : str[j] # "/"
         IN <<SubSeq(str, 1, i - 1)>> \o SplitSlash(SubSeq(str, i + 1, Len(str)))

\* strings.SplitN(str, "/", 2)
SplitN2(str) ==
    IF \A i \in 1..Len(str) : str[i] # "/" THEN <<str>>
    ELSE LET i == CHOOSE k \in 1..Len(str) :
                     str[k] = "/" /\ \A j \in 1..(k - 1) : str[j] # "/"
         IN <<SubSeq(str, 1, i - 1), SubSeq(str, i + 1, Len(str))>>

DotDot == <<".", ".">>

\* the elements filepath.Clean keeps: "" and "." are dropped, ".." removes
\* the element before it, is dropped at the root and kept at the front of a
\* relative path
RECURSIVE CleanElems(_, _, _)
CleanElems(segs, acc, rooted) ==
    IF segs = <<>> THEN acc
    ELSE LET seg == Head(segs)
             rest == Tail(segs)
         IN IF seg = <<>> \/ seg = <<".">> THEN CleanElems(rest, acc, rooted)
            ELSE IF seg = DotDot
                 THEN IF acc # <<>> /\ acc[Len(acc)] # DotDot
                      THEN CleanElems(rest, SubSeq(acc, 1, Len(acc) - 1), rooted)
                      ELSE IF rooted THEN CleanElems(rest, acc, rooted)
                      ELSE CleanElems(rest, Append(acc, seg), rooted)
                 ELSE CleanElems(rest, Append(acc, seg), rooted)

\* filepath.Clean
Clean(path) ==
    LET rooted == HasPrefix(path, <<"/">>)
        elems == CleanElems(SplitSlash(path), <<>>, rooted)
    IN IF rooted THEN <<"/">> \o JoinSlash(elems)
       ELSE IF elems = <<>> THEN <<".">> ELSE JoinSlash(elems)

\* filepath.Join(a, b) of two non-empty paths
FilepathJoin(a, b) == Clean(a \o <<"/">> \o b)

\* the Sandbox FS has one directory, workspace, rooted at /r
DirectoryNames == {<<"workspace">>}
Root == <<"/", "r">>

\* the result of a path computation: an error, or the path handed to the OS
PathErr(e) == [err |-> e, fullPath |-> <<>>]
PathOk(p) == [err |-> "", fullPath |-> p]

\* SandboxFileSystem.parsePath
parsePath(userPath) ==
    LET parts == SplitN2(TrimPrefix(TrimPrefix(userPath, <<".", "/">>), <<"/">>))
    IN IF parts[1] = <<>> THEN [err |-> "invalid path: empty", dirName |-> <<>>,
                                relPath |-> <<>>]
       ELSE IF parts[1] \notin DirectoryNames
            THEN [err |-> "unknown directory", dirName |-> <<>>, relPath |-> <<>>]
            ELSE [err |-> "", dirName |-> parts[1],
                  relPath |-> IF Len(parts) = 2 THEN parts[2] ELSE <<>>]

\* Directory.validatePath without its first check
validateRelPathNoTraversalCheck(relPath) ==
    IF relPath = <<>> \/ relPath = <<".">> THEN PathOk(Root)
    ELSE LET fullPath == FilepathJoin(Root, Clean(relPath))
         IN IF ~HasPrefix(fullPath, Root) THEN PathErr("invalid path")
            ELSE PathOk(fullPath)

\* Directory.validatePath on a path given as characters
validateRelPath(relPath) ==
    IF Contains(relPath, DotDot) THEN PathErr("path traversal not allowed")
    ELSE IF relPath = <<>> \/ relPath = <<".">> THEN PathOk(Root)
    ELSE LET fullPath == FilepathJoin(Root, Clean(relPath))
         IN IF ~HasPrefix(fullPath, Root) THEN PathErr("invalid path")
            ELSE PathOk(fullPath)

\* the path a Sandbox FS operation (ReadFile, WriteFile, ListFiles,
\* DeleteFile) makes its first file system call on, or the error it returns
\* before
SandboxPath(userPath) ==
    LET parsed == parsePath(userPath)
    IN IF parsed.err # "" THEN PathErr(parsed.err)
       ELSE validateRelPath(parsed.relPath)

FsOps == {"ReadFile", "WriteFile", "ListFiles", "DeleteFile"}

\* one Sandbox FS operation up to its first file system call
SandboxFsOp ==
    /\ pureIn.fn = "fs"
    /\ pureOut = NoOut
    /\ LET p == SandboxPath(pureIn.path)
       IN pureOut' = [fn |-> "fs", op |-> pureIn.op, err |-> p.err,
                      accessed |-> IF p.err = "" THEN {p.fullPath} ELSE {}]
    /\ UNCHANGED <<fsVars, sessVars, hubCallVars, sfsVars, refreshVars, workVars, mgrVars, listVars, execVars, pureIn>>

FsInputs == {[fn |-> "fs", op |-> o, path |-> p] : o \in FsOps, p \in UserPaths}

\* the disk around a session: its bundle directory /b with the generated
\* tree /b/servers, the workspace /r, and files outside both
BundleDir == <<"/", "b">>
DiskDirs == {<<>>, <<<<"b">>>>, <<<<"b">>, <<"servers">>>>, <<<<"r">>>>}
DiskFiles ==
    {<<<<"b">>, <<"servers">>, <<"x">>>>, <<<<"b">>, <<"x">>>>, <<<<"x">>>>,
     <<<<"r">>, <<"x">>>>}
GeneratedTree == <<<<"b">>, <<"servers">>>>
WorkspaceTree == <<<<"r">>>>

NoEntry == <<<<"ENOENT">>>>

\* the file or directory the OS reaches by following a path from /
RECURSIVE OsWalk(_, _)
OsWalk(segs, cur) ==
    IF segs = <<>> \/ cur = NoEntry THEN cur
    ELSE LET seg == Head(segs)
         IN IF seg = <<>> THEN OsWalk(Tail(segs), cur)
            ELSE IF cur \notin DiskDirs THEN NoEntry
            ELSE IF seg = <<".">> THEN OsWalk(Tail(segs), cur)
            ELSE IF seg = DotDot
                 THEN OsWalk(Tail(segs),
                             IF cur = <<>> THEN cur ELSE SubSeq(cur, 1, Len(cur) - 1))
                 ELSE OsWalk(Tail(segs), Append(cur, seg))

\* os.ReadFile(path): the file whose content is returned, if any
OsReadFile(path) ==
    LET at == OsWalk(SplitSlash(path), <<>>)
    IN IF at \in DiskFiles THEN [err |-> "", file |-> at]
       ELSE [err |-> "not found", file |-> <<>>]

\* the read_file tool
ReadFileTool ==
    /\ pureIn.fn = "read"
    /\ pureOut = NoOut
    /\ LET path == TrimPrefix(pureIn.path, <<"/">>)
       IN IF \E dir \in DirectoryNames : HasPrefix(path, dir \o <<"/">>)
          THEN LET p == SandboxPath(<<".", "/">> \o path)
                   r == IF p.err # "" THEN [err |-> p.err, file |-> <<>>]
                        ELSE OsReadFile(p.fullPath)
               IN pureOut' = [fn |-> "read", err |-> r.err, file |-> r.file]
          ELSE IF HasPrefix(path, <<"servers", "/">>)
               THEN LET r == OsReadFile(BundleDir \o <<"/">> \o path)
                    IN pureOut' = [fn |-> "read", err |-> r.err, file |-> r.file]
               ELSE pureOut' = [fn |-> "read", err |-> "not found", file |-> <<>>]
    /\ UNCHANGED <<fsVars, sessVars, hubCallVars, sfsVars, refreshVars, workVars, mgrVars, listVars, execVars, pureIn>>

ReadInputs == {[fn |-> "read", path |-> p] : p \in UserPaths}

(***************************************************************************)
(* The callMcpTool host callback: the response it writes for a tool call.  *)
(***************************************************************************)
\* most content items of a tool result tried
MaxContentItems == 2
\* a text content with or without text, and a content that is no text
ContentItems ==
    {[kind |-> "text", Text |-> ""], [kind |-> "text", Text |-> "t"],
     [kind |-> "image", Text |-> ""]}
ContentLists == UNION {[1..n -> ContentItems] : n \in 0..MaxContentItems}

\* getTextContent: the text of the first text content, "" without one
RECURSIVE getTextContent(_)
getTextContent(contentList) ==
    IF contentList = <<>> THEN ""
    ELSE IF Head(contentList).kind = "text" THEN Head(contentList).Text
    ELSE getTextContent(Tail(contentList))

\* json.Marshal of a structured content that is not nil
MarshalStructured(sc) == "{\"k\":1}"

\* the McpToolResponse written back; a field that is absent from the JSON
\* reads as empty. callErr is the error of McpClientHub.CallTool ("": none)
McpToolResponse(callErr, result) ==
    IF callErr # "" THEN [Result |-> "", Error |-> callErr]
    ELSE IF result.IsError
         THEN [Result |-> "", Error |-> getTextContent(result.Content)]
         ELSE IF result.StructuredContent # "nil"
              THEN [Result |-> MarshalStructured(result.StructuredContent),
                    Error |-> ""]
              ELSE [Result |-> getTextContent(result.Content), Error |-> ""]

\* the host callback serves one well-formed tool call
CallMcpTool ==
    /\ pureIn.fn = "host"
    /\ pureOut = NoOut
    /\ LET callErr == IF ~pureIn.known THEN "server not found"
                      ELSE IF pureIn.transportErr THEN "transport error"
                      ELSE ""
       IN pureOut' = [fn |-> "host",
                      response |-> McpToolResponse(callErr, pureIn.result)]
    /\ UNCHANGED <<fsVars, sessVars, hubCallVars, sfsVars, refreshVars, workVars, mgrVars, listVars, execVars, pureIn>>

\* a call to a known or unknown server, failing in the transport or
\* answered with a result
HostInputs ==
    {[fn |-> "host", known |-> k, transportErr |-> te,
      result |-> [IsError |-> ie, StructuredContent |-> sc, Content |-> cl]] :
        k \in BOOLEAN, te \in BOOLEAN, ie \in BOOLEAN,
        sc \in {"nil", "object"}, cl \in ContentLists}

(***************************************************************************)
(* The filter NewMcpClient, RefreshServerTools and RefreshAllServerTools   *)
(* apply to the tool list a server advertises, and the tree generated from *)
(* the filtered list.                                                      *)
(***************************************************************************)
\* longest advertised tool list tried
MaxAdvertised == 2
ToolDelete == <<"d", "e", "l", "e", "t", "e">>
\* reserved words of the sandbox language (JavaScript) that servers use as
\* tool names
ReservedIdentifiers == {ToolExport, ToolDelete}
AdvertisedLists ==
    UNION {[1..n -> {ToolExport, ToolDelete, ToolPut}] : n \in 0..MaxAdvertised}

\* a client is opened or refreshed with an advertised list: its catalog, the
\* entry of Tools() for it and the files generated for it
FilterCatalog ==
    /\ pureIn.fn = "filter"
    /\ pureOut = NoOut
    /\ LET tools == filterTools(pureIn.advertised)
       IN pureOut' = [fn |-> "filter", catalog |-> tools, grouped |-> tools,
                      files |-> FileNames(ServerTree("s1", tools))]
    /\ UNCHANGED <<fsVars, sessVars, hubCallVars, sfsVars, refreshVars, workVars, mgrVars, listVars,
                   execVars, pureIn>>

FilterInputs == {[fn |-> "filter", advertised |-> a] : a \in AdvertisedLists}

\* ---- opening a downstream client: config.inferServerTypes, config.validate,
\* ---- client.NewMcpClient
ServerTypes == {"", "stdio", "http", "sse", "ws"}
\* a server entry of the config file: its type tag and whether it names a
\* command and a URL
ServerConfigs == [Type : ServerTypes, Command : BOOLEAN, URL : BOOLEAN]
\* what the network does to this open: which connects succeed and whether
\* the tool listing that follows succeeds
Networks == [stdio : BOOLEAN, http : BOOLEAN, sse : BOOLEAN, list : BOOLEAN]

inferServerTypes(server) ==
    IF server.Type # "" THEN server
    ELSE IF server.Command /\ server.URL THEN server
    ELSE IF server.Command THEN [server EXCEPT !.Type = "stdio"]
    ELSE server

validate(server) ==
    IF server.Command /\ server.URL THEN "ambiguous server type"
    ELSE IF ~server.Command /\ ~server.URL THEN "must specify command or url"
    ELSE IF server.Type = "stdio" /\ ~server.Command THEN "command is required"
    ELSE IF server.Type \in {"http", "sse"} /\ ~server.URL THEN "url is required"
    ELSE IF server.Type \notin {"", "stdio", "http", "sse"} THEN "invalid type"
    ELSE ""

\* the transports connected in order, the one in use and the error
OpenResult(attempts, used, err) ==
    [fn |-> "open", attempts |-> attempts, used |-> used, err |-> err]

\* the first transport of the switch on cfg.Type (the constructors never fail)
FirstTransport(cfg) == IF cfg.Type = "" THEN "http" ELSE cfg.Type

\* the mutant: a failed connect falls back to server-sent-events whatever the tag
FallsBackAlways(cfg, first) == first # "sse"

FallsBack(cfg, first) == cfg.Type = "" /\ first = "http"

NewMcpClient(cfg, net) ==
    IF cfg.Type \notin {"", "stdio", "http", "sse"}
    THEN OpenResult(<<>>, "", "unsupported transport type")
    ELSE LET first == FirstTransport(cfg)
             second == ~net[first] /\ FallsBack(cfg, first)
             attempts == IF second THEN <<first, "sse">> ELSE <<first>>
             connected == IF second THEN net.sse ELSE net[first]
             used == IF second THEN "sse" ELSE first
         IN IF ~connected THEN OpenResult(attempts, "", "failed to connect")
            ELSE IF ~net.list THEN OpenResult(attempts, used, "failed to list tools")
            ELSE OpenResult(attempts, used, "")

\* config.Load (inferServerTypes, then validate) and the open of the server
OpenClient ==
    /\ pureIn.fn = "open"
    /\ pureOut = NoOut
    /\ LET cfg == inferServerTypes(pureIn.server)
       IN pureOut' = IF validate(cfg) # ""
                     THEN OpenResult(<<>>, "", validate(cfg))
                     ELSE NewMcpClient(cfg, pureIn.net)
    /\ UNCHANGED <<fsVars, sessVars, hubCallVars, sfsVars, refreshVars, workVars, mgrVars, listVars,
                   execVars, pureIn>>

OpenInputs ==
    {[fn |-> "open", server |-> c, net |-> n] : c \in ServerConfigs, n \in Networks}

\* ---- the result of a run: sandbox.ExecuteCode after plugin.Call, sourcemap.Map
\* a text is the sequence of its pieces
Thrown == {"", "boom"}
\* the lines of a stack the plugin reports: a frame of the bundle the source
\* map has a position for, a frame of the bundle it has none for, a native
\* frame
MaxFrames == 2
StackLines == {"at exec (main.js:1:1)", "at f (main.js:9:9)", "at parse (native)"}
Stacks == UNION {[1..n -> StackLines] : n \in 0..MaxFrames}
\* the source map the bundler wrote, and whether it parses
SourceMaps == {"{version:3}", "not a source map"}
PluginResults == [Result : {"ok"}, Error : Thrown, Stack : Stacks]

\* gosourcemap.Parse
ParseOk(sourceMap) == sourceMap = "{version:3}"

\* mapStackFrame: Mapped is set when the frame is not native and
\* consumer.Source finds its position
Mapped(line) == line = "at exec (main.js:1:1)"

\* formatter.FormatStackFrame of the frame parsed from the line
FormatStackFrame(line) ==
    IF ~Mapped(line) THEN line ELSE "at exec (index.ts:1:1)"

\* formatter.FormatWithMetadata of the mapped frames (debug is true): the
\* lines "<frame> <status>" joined by "\n"
RECURSIVE FormatWithMetadata(_)
FormatWithMetadata(stack) ==
    IF stack = <<>> THEN <<>>
    ELSE <<FormatStackFrame(Head(stack)),
           IF Mapped(Head(stack)) THEN " mapped" ELSE " unmapped">>
         \o (IF Tail(stack) = <<>> THEN <<>>
             ELSE <<"\n">> \o FormatWithMetadata(Tail(stack)))

Map(sourceMap, stack) ==
    IF ~ParseOk(sourceMap) THEN [out |-> <<>>, err |-> <<"invalid source map">>]
    ELSE [out |-> FormatWithMetadata(stack), err |-> <<>>]

MappedFailure(result, mappedStack) ==
    <<"failed to execute code", "error:", result.Error, "stack trace:">>
        \o mappedStack

\* [ret, err] of ExecuteCode for the unmarshalled plugin output
ExecuteCode(result, sourceMap) ==
    IF result.Error # ""
    THEN IF result.Stack # <<>>
         THEN LET m == Map(sourceMap, result.Stack)
              IN IF m.err # <<>>
                 THEN [ret |-> "", err |-> <<"failed to map error stack trace: ">> \o m.err]
                 ELSE [ret |-> "", err |-> MappedFailure(result, m.out)]
         ELSE [ret |-> "", err |-> <<"failed to execute code:", result.Error>>]
    ELSE [ret |-> result.Result, err |-> <<>>]

\* the execute_code handler after bundling: the run and its wrapped failure
ExecuteCodeTool ==
    /\ pureIn.fn = "run"
    /\ pureOut = NoOut
    /\ LET r == ExecuteCode(pureIn.result, pureIn.sourceMap)
       IN pureOut' = [fn |-> "run", text |-> r.ret,
                      err |-> IF r.err = <<>> THEN <<>>
                              ELSE <<"execution failed: ">> \o r.err]
    /\ UNCHANGED <<fsVars, sessVars, hubCallVars, sfsVars, refreshVars, workVars, mgrVars, listVars,
                   execVars, pureIn>>

RunInputs ==
    {[fn |-> "run", result |-> r, sourceMap |-> m] : r \in PluginResults, m \in SourceMaps}

\* ---- module generation: codegen.SchemaConverter, TypeScriptGenerator
\* the property names of the schemas
PropertyNames == {<<"p">>, <<"b">>, <<"x">>}
\* a JSON schema: absent, {}, {"type": "string"}, {"type": "object"} without
\* and with properties, {"type": "array", "items": ...}
NilSchema == [k |-> "nil"]
EmptySchema == [k |-> "empty"]
StringSchema == [k |-> "string"]
FreeObject == [k |-> "object", hasProperties |-> FALSE]
ObjectSchema(properties, required) ==
    [k |-> "object", hasProperties |-> TRUE, properties |-> properties,
     required |-> required]
ArraySchema(items) == [k |-> "array", items |-> items]

NestedObject == ObjectSchema([n \in {<<"x">>} |-> StringSchema], {<<"x">>})
\* the schemas of the properties of a top-level object
PropertySchemas ==
    {StringSchema, FreeObject, NestedObject, ArraySchema(StringSchema),
     ArraySchema(NestedObject)}
ObjectSchemas ==
    UNION {{ObjectSchema(props, req) : props \in [D -> PropertySchemas],
                                       req \in SUBSET D} :
           D \in SUBSET {<<"p">>, <<"b">>}}
\* a schema without a type and without oneOf, anyOf or allOf
UntypedSchema == [k |-> "untyped"]
\* a schema without a type whose "allOf" lists the members
AllOfSchema(members) == [k |-> "allOf", allOf |-> members]
\* most members of an allOf
MaxMembers == 2
\* the members: a string, an object without properties, objects over the
\* properties p and b
AllOfMembers ==
    {StringSchema, FreeObject}
        \cup UNION {{ObjectSchema([n \in D |-> StringSchema], req) : req \in SUBSET D} :
                       D \in SUBSET {<<"p">>, <<"b">>}}
AllOfSchemas ==
    {AllOfSchema(m) : m \in UNION {[1..n -> AllOfMembers] : n \in 1..MaxMembers}}
InputSchemas ==
    {NilSchema, EmptySchema, StringSchema, UntypedSchema, FreeObject}
        \cup ObjectSchemas
OutputSchemas == {NilSchema, ObjectSchema([n \in {<<"b">>} |-> NestedObject], {})}

\* an iteration order of a Go map of properties: a permutation of the names
Orders ==
    {o \in [1..Cardinality(PropertyNames) -> PropertyNames] :
        \A i, j \in DOMAIN o : i # j => o[i] # o[j]}

\* a piece of emitted source: text, the declaration of a named type, a
\* reference to a type by name, a field, the call of callTool
Tok(t, v) == [t |-> t, v |-> v]
Text(str) == Tok("text", <<str>>)

\* TSType; ElementType is a sequence of at most one type (a nil pointer is <<>>)
TSType(kind, name, rawType, properties, elementType) ==
    [Kind |-> kind, Name |-> name, RawType |-> rawType,
     Properties |-> properties, ElementType |-> elementType]
Primitive(raw) == TSType("primitive", <<>>, <<Text(raw)>>, <<>>, <<>>)

\* generatedTypes is the set of the registered types, keyed by their names
RECURSIVE ConvertSchema(_, _, _, _)
RECURSIVE ConvertProperties(_, _, _, _, _)
RECURSIVE convertIntersection(_, _, _, _, _)
\* ConvertSchema, convertSingleType, convertArray and convertObject:
\* [type, generatedTypes]
ConvertSchema(schema, typeName, generatedTypes, order) ==
    IF \E t \in generatedTypes : t.Name = typeName
    THEN [type |-> CHOOSE t \in generatedTypes : t.Name = typeName,
          generatedTypes |-> generatedTypes]
    ELSE CASE schema.k = "string" ->
                [type |-> Primitive("string"), generatedTypes |-> generatedTypes]
           [] schema.k = "array" ->
                LET e == ConvertSchema(schema.items, typeName \o <<"Item">>,
                                       generatedTypes, order)
                IN [type |-> TSType("array", typeName, <<>>, <<>>, <<e.type>>),
                    generatedTypes |-> e.generatedTypes]
           [] schema.k = "object" /\ ~schema.hasProperties ->
                [type |-> TSType("type", typeName,
                                 <<Text("Record<string, any>")>>, <<>>, <<>>),
                 generatedTypes |-> generatedTypes]
           [] schema.k = "object" /\ schema.hasProperties ->
                LET names == SelectSeq(order,
                                 LAMBDA n : n \in DOMAIN schema.properties)
                    c == ConvertProperties(schema, names, typeName,
                                           generatedTypes, order)
                    tsType == TSType("interface", typeName, <<>>, c.properties, <<>>)
                IN [type |-> tsType,
                    generatedTypes |->
                        {t \in c.generatedTypes : t.Name # typeName} \cup {tsType}]
           [] schema.k = "allOf" ->
                LET c == convertIntersection(schema.allOf, 0, typeName,
                                             generatedTypes, order)
                IN [type |-> TSType("interface", typeName, <<>>, c.properties, <<>>),
                    generatedTypes |-> c.generatedTypes]
           [] OTHER ->
                [type |-> Primitive("any"), generatedTypes |-> generatedTypes]

\* fmt.Sprintf("%s_%d", typeName, i)
SubTypeName(typeName, i) == typeName \o <<"_", <<"0", "1", "2">>[i + 1]>>

\* the loop of convertIntersection over the members from the i-th on: the
\* properties of every member that converts to an interface are appended
convertIntersection(schemas, i, typeName, generatedTypes, order) ==
    IF schemas = <<>>
    THEN [properties |-> <<>>, generatedTypes |-> generatedTypes]
    ELSE LET subType == ConvertSchema(Head(schemas), SubTypeName(typeName, i),
                                      generatedTypes, order)
             rest == convertIntersection(Tail(schemas), i + 1, typeName,
                                         subType.generatedTypes, order)
         IN [properties |->
                 (IF subType.type.Kind = "interface"
                  THEN subType.type.Properties ELSE <<>>) \o rest.properties,
             generatedTypes |-> rest.generatedTypes]

\* the loop of convertObject over the properties, in the order of the range
ConvertProperties(schema, names, typeName, generatedTypes, order) ==
    IF names = <<>>
    THEN [properties |-> <<>>, generatedTypes |-> generatedTypes]
    ELSE LET propName == Head(names)
             p == ConvertSchema(schema.properties[propName],
                                typeName \o ToPascalCase(propName),
                                generatedTypes, order)
             rest == ConvertProperties(schema, Tail(names), typeName,
                                       p.generatedTypes, order)
             prop == [Name |-> propName, Type |-> p.type,
                      IsOptional |-> propName \notin schema.required]
         IN [properties |-> <<prop>> \o rest.properties,
             generatedTypes |-> rest.generatedTypes]

RECURSIVE typeToString(_)
typeToString(t) ==
    CASE t.Kind = "primitive" -> t.RawType
      [] t.Kind = "array" ->
            IF t.ElementType # <<>>
            THEN typeToString(t.ElementType[1]) \o <<Text("[]")>>
            ELSE <<Text("any[]")>>
      [] t.Kind \in {"interface", "type"} ->
            IF t.Name # <<>> THEN <<Tok("ref", t.Name)>> ELSE <<Text("any")>>
      [] OTHER -> <<Text("any")>>

\* acc is [result, seen]
RECURSIVE addTypeWithDependencies(_, _, _)
RECURSIVE collectDependencies(_, _, _)
RECURSIVE addDependentType(_, _, _)
RECURSIVE addDependentTypes(_, _, _)
addTypeWithDependencies(tsType, acc, generatedTypes) ==
    IF tsType.Name = <<>> \/ tsType.Name \in acc.seen THEN acc
    ELSE LET a == collectDependencies(tsType, acc, generatedTypes)
         IN IF tsType.Name \notin a.seen
            THEN [result |-> Append(a.result, tsType),
                  seen |-> a.seen \cup {tsType.Name}]
            ELSE a

collectDependencies(tsType, acc, generatedTypes) ==
    CASE tsType.Kind = "interface" ->
            addDependentTypes(tsType.Properties, acc, generatedTypes)
      [] tsType.Kind = "array" ->
            IF tsType.ElementType = <<>> THEN acc
            ELSE addDependentType(tsType.ElementType[1], acc, generatedTypes)
      [] OTHER -> acc

addDependentType(tsType, acc, generatedTypes) ==
    LET a == IF /\ tsType.Name # <<>>
                /\ tsType.Name \notin acc.seen
                /\ \E g \in generatedTypes : g.Name = tsType.Name
             THEN addTypeWithDependencies(
                      CHOOSE g \in generatedTypes : g.Name = tsType.Name,
                      acc, generatedTypes)
             ELSE acc
    IN collectDependencies(tsType, a, generatedTypes)

\* the loop of collectDependencies over the properties of an interface
addDependentTypes(properties, acc, generatedTypes) ==
    IF properties = <<>> THEN acc
    ELSE addDependentTypes(Tail(properties),
             addDependentType(Head(properties).Type, acc, generatedTypes),
             generatedTypes)

RECURSIVE collectNestedTypes(_, _, _)
\* the ordered interfaces of the file
collectNestedTypes(interfaces, acc, generatedTypes) ==
    IF interfaces = <<>> THEN acc.result
    ELSE collectNestedTypes(Tail(interfaces),
             addTypeWithDependencies(Head(interfaces), acc, generatedTypes),
             generatedTypes)

RECURSIVE renderProperties(_)
renderProperties(properties) ==
    IF properties = <<>> THEN <<>>
    ELSE LET prop == Head(properties)
         IN <<Tok(IF prop.IsOptional THEN "field?" ELSE "field", prop.Name)>>
                \o typeToString(prop.Type) \o renderProperties(Tail(properties))

renderType(t) ==
    CASE t.Kind = "interface" ->
            <<Tok("decl", t.Name)>> \o renderProperties(t.Properties)
                \o <<Text("}")>>
      [] t.Kind = "type" -> <<Tok("decl", t.Name)>> \o t.RawType
      [] OTHER -> <<>>

renderFunction(fn) ==
    <<Tok("function", fn.Name)>>
        \o (IF fn.HasArgs THEN <<Tok("param", fn.ArgsTypeName)>> ELSE <<>>)
        \o <<Tok("returns", fn.ReturnType),
             Tok("callTool", <<IF fn.HasArgs THEN "args" ELSE "{}">>)>>

RECURSIVE renderTypes(_)
renderTypes(interfaces) ==
    IF interfaces = <<>> THEN <<>>
    ELSE renderType(Head(interfaces)) \o renderTypes(Tail(interfaces))

renderFile(interfaces, function) ==
    <<Text("Generated MCP tool definitions")>> \o renderTypes(interfaces)
        \o renderFunction(function)

\* the emitted file of a tool, the properties of each object ranged over in
\* the given order
GenerateFunctionFile(serverName, tool, order) ==
    LET hasInput == tool.InputSchema.k \notin {"nil", "empty"}
        argsTypeName == IF hasInput THEN ToPascalCase(tool.Name) \o <<"Args">>
                        ELSE <<>>
        args == IF hasInput
                THEN ConvertSchema(tool.InputSchema, argsTypeName, {}, order)
                ELSE [type |-> Primitive("any"), generatedTypes |-> {}]
        returnType == ToPascalCase(tool.Name) \o <<"Result">>
        result == IF tool.OutputSchema.k \notin {"nil", "empty"}
                  THEN ConvertSchema(tool.OutputSchema, returnType,
                                     args.generatedTypes, order)
                  ELSE [type |-> TSType("type", returnType, <<Text("any")>>,
                                        <<>>, <<>>),
                        generatedTypes |-> args.generatedTypes]
        interfaces == (IF hasInput THEN <<args.type>> ELSE <<>>) \o <<result.type>>
        function == [Name |-> ToCamelCase(tool.Name), ServerName |-> serverName,
                     ToolName |-> tool.Name, ArgsTypeName |-> argsTypeName,
                     ReturnType |-> returnType, HasArgs |-> argsTypeName # <<>>]
    IN renderFile(collectNestedTypes(interfaces, [result |-> <<>>, seen |-> {}],
                                     result.generatedTypes),
                  function)

\* the module of a tool is generated, and generated again
GenerateModule ==
    /\ pureIn.fn = "gen"
    /\ pureOut = NoOut
    /\ \E first, second \in Orders :
          pureOut' = [fn |-> "gen",
                      out |-> GenerateFunctionFile("s1", pureIn.tool, first),
                      again |-> GenerateFunctionFile("s1", pureIn.tool, second)]
    /\ UNCHANGED <<fsVars, sessVars, hubCallVars, sfsVars, refreshVars, workVars, mgrVars, listVars,
                   execVars, pureIn>>

\* the converter is applied to a schema with allOf
ConvertAllOf ==
    /\ pureIn.fn = "allOf"
    /\ pureOut = NoOut
    /\ \E order \in Orders :
          pureOut' = [fn |-> "allOf",
                      type |-> ConvertSchema(pureIn.schema, <<"A">>, {}, order).type]
    /\ UNCHANGED <<fsVars, sessVars, hubCallVars, sfsVars, refreshVars, workVars,
                   mgrVars, listVars, execVars, pureIn>>

\* most tools of the server whose directory is generated
MaxTools == 2
\* the names of its tools
TreeToolNames == {<<"g", "_", "x">>, <<"g", "X">>, <<"p">>}
\* the tool lists of a server: distinct tools
TreeInputs ==
    {[fn |-> "tree", tools |-> t] :
        t \in {u \in UNION {[1..n -> TreeToolNames] : n \in 1..MaxTools} :
                  \A i, j \in DOMAIN u : i # j => u[i] # u[j]}}

\* the directory of a server is generated from its tools
GenerateServerDir ==
    /\ pureIn.fn = "tree"
    /\ pureOut = NoOut
    /\ pureOut' = [fn |-> "tree", dir |-> ServerTree("s1", pureIn.tools)]
    /\ UNCHANGED <<fsVars, sessVars, hubCallVars, sfsVars, refreshVars, workVars,
                   mgrVars, listVars, execVars, pureIn>>

AllOfInputs == {[fn |-> "allOf", schema |-> a] : a \in AllOfSchemas}

GenInputs ==
    {[fn |-> "gen",
      tool |-> [Name |-> ToolPut, InputSchema |-> i, OutputSchema |-> o]] :
        i \in InputSchemas, o \in OutputSchemas}

NameInputs == {[fn |-> "names", name |-> n] : n \in ToolNames}

PureInputs == NameInputs \cup StubInputs \cup ReadInputs \cup FsInputs
                 \cup HostInputs \cup FilterInputs \cup OpenInputs
                 \cup RunInputs \cup GenInputs \cup AllOfInputs \cup TreeInputs

\* one input, no session and a fresh sandbox directory
PureInit ==
    /\ nodes = EmptyRoot
    /\ stats = recalculateStats(EmptyRoot)
    /\ dirRemovals = 0
    /\ fsRet = [op |-> "new", path |-> <<>>, err |-> ""]
    /\ upstream = [s \in Servers |-> <<ToolPut>>]
    /\ conns = [s \in Servers |-> "none"]
    /\ closeInvoked = {}
    /\ hubClients = {}
    /\ hubTools = [s \in Servers |-> <<>>]
    /\ cachedTools = NilCache
    /\ onToolsRefreshed = FALSE
    /\ sessions = {}
    /\ createPc = "none"
    /\ createRet = ""
    /\ deleteRet = [err |-> "", from |-> ""]
    /\ bundleExists = FALSE
    /\ serverDirs = [s \in Servers |-> NoDir]
    /\ sessionMu = 0
    /\ workers = [w \in Workers |-> IdleWorker]
    /\ refreshSeq = 0
    /\ explicitCalls = 0
    /\ hubMu = 0
    /\ calls = [c \in Callers |-> IdleCall]
    /\ lister = IdleLister
    /\ readOnly = FALSE
    /\ fsData = NoData
    /\ refreshed = [s \in Servers |-> 0]
    /\ refresher = IdleRefresher
    /\ workDirs = {}
    /\ invocations = [i \in Invocations |-> IdleInvocation]
    /\ managerMu = 0
    /\ registry = 0
    /\ created = {}
    /\ nextObj = 1
    /\ getters = [c \in Getters |-> IdleGetter]
    /\ exec = IdleExec
    /\ elapsed = 0
    /\ cancelled = FALSE
    /\ pureIn \in PureInputs
    /\ pureOut = NoOut

PureNext ==
    \/ GenerateNames
    \/ InvokeStub
    \/ ReadFileTool
    \/ SandboxFsOp
    \/ CallMcpTool
    \/ FilterCatalog
    \/ OpenClient
    \/ ExecuteCodeTool
    \/ GenerateModule
    \/ ConvertAllOf
    \/ GenerateServerDir

(***************************************************************************)
(* list_directory("/servers/<s>"): ServerTools reads client.tools after    *)
(* the hub's read lock is released, while a refresh may be replacing it.   *)
(***************************************************************************)
Min(a, b) == IF a < b THEN a ELSE b

\* what the unlocked read of the slice client.tools can yield when its words
\* are loaded around a refresh's store: the slice before, the slice after, or
\* the array of one with the length of the other
SliceReads(before, after) ==
    {before, after,
     SubSeq(before, 1, Min(Len(before), Len(after))),
     SubSeq(after, 1, Min(Len(before), Len(after)))}

\* the lines list_directory prints for a tool list: one <funcName>.ts per
\* tool, then index.ts
Listing(tools) ==
    [i \in 1..Len(tools) |-> ListedName(tools[i])] \o <<IndexFileName>>

\* the handler looks the client up under ch.mu.RLock() and starts reading
\* client.tools
ListDirStart(s) ==
    /\ lister.pc = "idle"
    /\ hubMu = 0
    /\ s \in hubClients
    /\ lister' = [IdleLister EXCEPT !.pc = "read", !.server = s, !.seen = hubTools[s]]
    /\ UNCHANGED <<fsVars, sessVars, hubCallVars, sfsVars, refreshVars, workVars, mgrVars, pureVars, execVars>>

\* the read of client.tools ends and the handler prints the listing
ListDirRead ==
    /\ lister.pc = "read"
    /\ \E tools \in SliceReads(lister.seen, hubTools[lister.server]) :
          lister' = [lister EXCEPT !.pc = "done", !.cur = hubTools[lister.server],
                                   !.out = Listing(tools)]
    /\ UNCHANGED <<fsVars, sessVars, hubCallVars, sfsVars, refreshVars, workVars, mgrVars, pureVars, execVars>>

\* the response has been sent
ListDirDone ==
    /\ lister.pc = "done"
    /\ lister' = IdleLister
    /\ UNCHANGED <<fsVars, sessVars, hubCallVars, sfsVars, refreshVars, workVars, mgrVars, pureVars, execVars>>

\* list_directory requests of a registered session, with notifications and
\* refreshes
ListNext ==
    \/ \E s \in Servers : ListDirStart(s)
    \/ ListDirRead
    \/ ListDirDone
    \/ \E s \in Servers, c \in Catalogs : ToolListChanged(s, c)
    \/ \E w \in Workers, listOk \in BOOLEAN : WorkerRefresh(w, listOk)
    \/ \E s \in Servers, listOk \in BOOLEAN : ExplicitRefresh(s, listOk)
    \/ \E listOk \in SUBSET Servers : RefreshAllServerTools(listOk)

(***************************************************************************)
(* execute_code: the handler bundles the code, creates a sandbox with the  *)
(* request context and calls the plugin's executeCode.  Sandbox.ExecuteCode *)
(* passes no context and no deadline to plugin.Call, the manifest sets no   *)
(* timeout, and the handler starts no timer: the call ends when the code    *)
(* ends.  The request context is used by the callMcpTool host callback.     *)
(***************************************************************************)
\* most steps of a user code that ends
MaxSteps == 2
\* the 30 seconds of the tool description, in ticks
ExecutionTimeout == 2
\* the clock is not followed further
MaxElapsed == ExecutionTimeout + 1

Codes == [loops : BOOLEAN, steps : 0..MaxSteps, ends : {"returns", "throws"}]

\* the handler bundles the code and creates the sandbox; either can fail
ExecuteCodeStart(code, bundleOk, sandboxOk) ==
    /\ exec.pc = "idle"
    /\ exec' = IF ~bundleOk
               THEN [IdleExec EXCEPT !.pc = "done", !.code = code,
                                     !.ret = "bundling failed"]
               ELSE IF ~sandboxOk
               THEN [IdleExec EXCEPT !.pc = "done", !.code = code,
                                     !.ret = "failed to create sandbox"]
               ELSE [IdleExec EXCEPT !.pc = "run", !.code = code]
    /\ elapsed' = 0
    /\ cancelled' = FALSE
    /\ UNCHANGED <<fsVars, sessVars, hubCallVars, sfsVars, refreshVars, workVars, mgrVars, pureVars, listVars>>

\* the plugin runs one step of the code
PluginStep ==
    /\ exec.pc = "run"
    /\ exec.code.loops \/ exec.code.steps > 0
    /\ exec' = IF exec.code.loops THEN exec
               ELSE [exec EXCEPT !.code.steps = @ - 1]
    /\ UNCHANGED <<fsVars, sessVars, hubCallVars, sfsVars, refreshVars, workVars, mgrVars, pureVars, listVars, elapsed,
                   cancelled>>

\* the code calls a tool: McpClientHub.CallTool(sb.ctx, ...) fails when the
\* request context is cancelled, and the code goes on
HostCallTool ==
    /\ exec.pc = "run"
    /\ exec.code.loops \/ exec.code.steps > 0
    /\ exec' = [exec EXCEPT !.toolErr = cancelled]
    /\ UNCHANGED <<fsVars, sessVars, hubCallVars, sfsVars, refreshVars, workVars, mgrVars, pureVars, listVars, elapsed,
                   cancelled>>

\* plugin.Call returns when the code has ended, and the handler returns the
\* result or "execution failed: ..." with the error of the code
PluginReturn ==
    /\ exec.pc = "run"
    /\ ~exec.code.loops
    /\ exec.code.steps = 0
    /\ exec' = [exec EXCEPT !.pc = "done",
                            !.ret = IF exec.code.ends = "throws"
                                    THEN "execution failed: failed to execute code"
                                    ELSE "result"]
    /\ UNCHANGED <<fsVars, sessVars, hubCallVars, sfsVars, refreshVars, workVars, mgrVars, pureVars, listVars, elapsed,
                   cancelled>>

\* time passes while the plugin call is running
Tick ==
    /\ exec.pc = "run"
    /\ elapsed < MaxElapsed
    /\ elapsed' = elapsed + 1
    /\ UNCHANGED <<fsVars, sessVars, hubCallVars, sfsVars, refreshVars, workVars, mgrVars, pureVars, listVars, exec,
                   cancelled>>

\* the client cancels the request
CancelRequest ==
    /\ exec.pc = "run"
    /\ ~cancelled
    /\ cancelled' = TRUE
    /\ UNCHANGED <<fsVars, sessVars, hubCallVars, sfsVars, refreshVars, workVars, mgrVars, pureVars, listVars, exec,
                   elapsed>>

\* the response is sent
ExecuteCodeDone ==
    /\ exec.pc = "done"
    /\ exec' = IdleExec
    /\ elapsed' = 0
    /\ cancelled' = FALSE
    /\ UNCHANGED <<fsVars, sessVars, hubCallVars, sfsVars, refreshVars, workVars, mgrVars, pureVars, listVars>>

ExecNext ==
    \/ \E code \in Codes, bundleOk \in BOOLEAN, sandboxOk \in BOOLEAN :
          ExecuteCodeStart(code, bundleOk, sandboxOk)
    \/ PluginStep
    \/ HostCallTool
    \/ PluginReturn
    \/ Tick
    \/ CancelRequest
    \/ ExecuteCodeDone

(***************************************************************************)
(* SandboxFileSystem.WriteFile, DeleteFile, ReadFile and ListFiles on the   *)
(* directory: the read-only check, then the Directory's operation.          *)
(***************************************************************************)
\* what is below the root when NewSandboxFileSystem opens the directory
InitialDisks ==
    {[p \in NodePaths |->
         CASE p = <<>> -> DirNode
           [] p = <<"f">> -> f
           [] p = <<"g">> -> g
           [] p = <<"d">> -> IF d = "none" THEN NoNode ELSE DirNode
           [] p = <<"d", "h">> -> IF d = "full" THEN FileNode(<<>>) ELSE NoNode] :
        f \in {NoNode, FileNode(<<>>), FileNode(<<"a">>)},
        g \in {NoNode, FileNode(<<"a", "a">>)},
        d \in {"none", "empty", "full"}}

\* SandboxFileSystem.WriteFile
SfsWriteFile(relPath, content) ==
    IF readOnly
    THEN /\ fsRet' = FsReturn("write", relPath, "directory is read-only")
         /\ UNCHANGED <<nodes, stats, dirRemovals, sessVars, auxVars>>
    ELSE WriteFile(relPath, content)

\* SandboxFileSystem.DeleteFile without the test of config.ReadOnly
SfsDeleteFileNoReadOnlyCheck(relPath) == DeleteFile(relPath)

\* SandboxFileSystem.DeleteFile
SfsDeleteFile(relPath) ==
    IF readOnly
    THEN /\ fsRet' = FsReturn("delete", relPath, "directory is read-only")
         /\ UNCHANGED <<nodes, stats, dirRemovals, sessVars, auxVars>>
    ELSE DeleteFile(relPath)

\* SandboxFileSystem.ReadFile and Directory.ReadFile
SfsReadFile(relPath) ==
    LET v == validatePath(relPath)
        p == v.full
    IN /\ IF v.err # ""
          THEN /\ fsRet' = FsReturn("read", relPath, v.err)
               /\ fsData' = NoData
          ELSE IF ~StatOk(nodes, p)
          THEN /\ fsRet' = FsReturn("read", relPath, "file not found")
               /\ fsData' = NoData
          ELSE IF nodes[p].kind = "dir"
          THEN /\ fsRet' = FsReturn("read", relPath, "failed to read file")
               /\ fsData' = NoData
          ELSE /\ fsRet' = FsReturn("read", relPath, "")
               /\ fsData' = [NoData EXCEPT !.content = nodes[p].content]
       /\ UNCHANGED <<nodes, stats, dirRemovals, sessVars, hubCallVars, pureVars,
                      listVars, execVars, mgrVars, refreshVars, workVars, readOnly>>

\* the name ListFiles gives an entry: a directory gets "/" appended
EntryName(ns, q) ==
    IF ns[q].kind = "dir" THEN <<q[Len(q)], "/">> ELSE <<q[Len(q)]>>

\* SandboxFileSystem.ListFiles and Directory.ListFiles (the entries of
\* os.ReadDir, as a set)
SfsListFiles(relPath) ==
    LET v == validatePath(relPath)
        p == v.full
    IN /\ IF v.err # ""
          THEN /\ fsRet' = FsReturn("list", relPath, v.err)
               /\ fsData' = NoData
          ELSE IF ~StatOk(nodes, p)
          THEN /\ fsRet' = FsReturn("list", relPath, "directory not found")
               /\ fsData' = NoData
          ELSE IF nodes[p].kind = "file"
          THEN /\ fsRet' = FsReturn("list", relPath, "failed to read directory")
               /\ fsData' = NoData
          ELSE /\ fsRet' = FsReturn("list", relPath, "")
               /\ fsData' = [NoData EXCEPT !.files =
                               {EntryName(nodes, q) :
                                   q \in {c \in Children(p) : StatOk(nodes, c)}}]
       /\ UNCHANGED <<nodes, stats, dirRemovals, sessVars, hubCallVars, pureVars,
                      listVars, execVars, mgrVars, refreshVars, workVars, readOnly>>

SfsNext ==
    \/ \E p \in InputPaths, c \in Contents : SfsWriteFile(p, c)
    \/ \E p \in InputPaths : SfsDeleteFile(p)
    \/ \E p \in InputPaths : SfsReadFile(p)
    \/ \E p \in InputPaths : SfsListFiles(p)

\* NewSandboxFileSystem on a root that may hold files, opened read-only
SfsInit ==
    /\ nodes \in InitialDisks
    /\ stats = recalculateStats(nodes)
    /\ dirRemovals = 0
    /\ fsRet = [op |-> "new", path |-> <<>>, err |-> ""]
    /\ upstream = [s \in Servers |-> <<ToolPut>>]
    /\ conns = [s \in Servers |-> "none"]
    /\ closeInvoked = {}
    /\ hubClients = {}
    /\ hubTools = [s \in Servers |-> <<>>]
    /\ cachedTools = NilCache
    /\ onToolsRefreshed = FALSE
    /\ sessions = {}
    /\ createPc = "none"
    /\ createRet = ""
    /\ deleteRet = [err |-> "", from |-> ""]
    /\ bundleExists = FALSE
    /\ serverDirs = [s \in Servers |-> NoDir]
    /\ sessionMu = 0
    /\ workers = [w \in Workers |-> IdleWorker]
    /\ refreshSeq = 0
    /\ explicitCalls = 0
    /\ hubMu = 0
    /\ calls = [c \in Callers |-> IdleCall]
    /\ lister = IdleLister
    /\ readOnly = TRUE
    /\ fsData = NoData
    /\ refreshed = [s \in Servers |-> 0]
    /\ refresher = IdleRefresher
    /\ workDirs = {}
    /\ invocations = [i \in Invocations |-> IdleInvocation]
    /\ managerMu = 0
    /\ registry = 0
    /\ created = {}
    /\ nextObj = 1
    /\ getters = [c \in Getters |-> IdleGetter]
    /\ exec = IdleExec
    /\ elapsed = 0
    /\ cancelled = FALSE
    /\ pureIn = NoInput
    /\ pureOut = NoOut

(***************************************************************************)
(* Manager.GetOrCreateSession called concurrently for one unknown id.  The *)
(* setup (hub connect, tree generation, subscription) runs inside the       *)
(* critical section of Manager.mu; its outcome is an input here.            *)
(***************************************************************************)
SetupOutcomes == {"ok", "failed to connect client hub",
                  "failed to initialize session bundle directory"}

\* the lookup under m.mu.RLock(): return the session, or go for the lock
GetFast(c) ==
    /\ getters[c].pc = "idle"
    /\ managerMu = 0
    /\ getters' = [getters EXCEPT ![c] =
                     IF registry # 0 THEN [pc |-> "done", ret |-> registry, err |-> ""]
                     ELSE [@ EXCEPT !.pc = "lock"]]
    /\ UNCHANGED <<fsVars, sessVars, hubCallVars, pureVars, listVars, execVars,
                   sfsVars, refreshVars, workVars, managerMu, registry, created, nextObj>>

\* m.mu.Lock()
GetLock(c) ==
    /\ getters[c].pc = "lock"
    /\ managerMu = 0
    /\ managerMu' = c
    /\ getters' = [getters EXCEPT ![c].pc = "locked"]
    /\ UNCHANGED <<fsVars, sessVars, hubCallVars, pureVars, listVars, execVars,
                   sfsVars, refreshVars, workVars, registry, created, nextObj>>

\* the setup of a new session object and its registration, then Unlock
CreateSession(c, outcome) ==
    /\ managerMu' = 0
    /\ nextObj' = nextObj + 1
    /\ IF outcome = "ok"
       THEN /\ created' = created \cup {nextObj}
            /\ registry' = nextObj
            /\ getters' = [getters EXCEPT ![c] =
                             [pc |-> "done", ret |-> nextObj, err |-> ""]]
       ELSE /\ getters' = [getters EXCEPT ![c] =
                             [pc |-> "done", ret |-> 0, err |-> outcome]]
            /\ UNCHANGED <<registry, created>>

\* the critical section without the second lookup
GetLockedNoDoubleCheck(c, outcome) ==
    /\ getters[c].pc = "locked"
    /\ CreateSession(c, outcome)
    /\ UNCHANGED <<fsVars, sessVars, hubCallVars, pureVars, listVars, execVars,
                   sfsVars, refreshVars, workVars>>

\* the critical section: the second lookup, else the setup
GetLocked(c, outcome) ==
    /\ getters[c].pc = "locked"
    /\ IF registry # 0
       THEN /\ getters' = [getters EXCEPT ![c] =
                             [pc |-> "done", ret |-> registry, err |-> ""]]
            /\ managerMu' = 0
            /\ UNCHANGED <<registry, created, nextObj>>
       ELSE CreateSession(c, outcome)
    /\ UNCHANGED <<fsVars, sessVars, hubCallVars, pureVars, listVars, execVars,
                   sfsVars, refreshVars, workVars>>

MgrNext ==
    \/ \E c \in Getters : GetFast(c)
    \/ \E c \in Getters : GetLock(c)
    \/ \E c \in Getters, outcome \in SetupOutcomes : GetLocked(c, outcome)

(***************************************************************************)
(* McpClientHub.RefreshServerTools step by step: ch.mu.Lock() with the     *)
(* deferred Unlock, the ListTools request to the downstream server, the    *)
(* replacement of client.tools; beside it the callers of Tools, CallTool   *)
(* and ServerTools.                                                        *)
(***************************************************************************)
\* the holder of ch.mu while a refresh runs
RefresherId == MaxCallers + 1

\* a downstream server changes the tool list it advertises
ServerChangesTools(s, catalog) ==
    /\ catalog # upstream[s]
    /\ GeneratesOk(filterTools(catalog))
    /\ upstream' = [upstream EXCEPT ![s] = catalog]
    /\ refreshed' = [refreshed EXCEPT ![s] = 0]
    /\ UNCHANGED <<fsVars, hubCallVars, pureVars, listVars, execVars, sfsVars,
                   mgrVars, refresher, workVars, conns, closeInvoked, hubClients, hubTools,
                   cachedTools, onToolsRefreshed, sessions, createPc, createRet,
                   deleteRet, bundleExists, serverDirs, sessionMu, workers,
                   refreshSeq, explicitCalls>>

\* RefreshServerTools: ch.mu.Lock(), the lookup of the client, and the
\* ListTools request is sent
RefreshLock(s) ==
    /\ refresher.pc = "idle"
    /\ explicitCalls < MaxExplicit
    /\ explicitCalls' = explicitCalls + 1
    /\ hubMu = 0
    /\ IF s \in hubClients
       THEN /\ hubMu' = RefresherId
            /\ refresher' = [IdleRefresher EXCEPT !.pc = "listing", !.server = s]
       ELSE /\ hubMu' = 0
            /\ refresher' = [IdleRefresher EXCEPT !.pc = "done", !.server = s,
                                                  !.ret = "server not found"]
    /\ UNCHANGED <<fsVars, pureVars, listVars, execVars, sfsVars, mgrVars,
                   refreshed, workVars, calls, upstream, conns, closeInvoked, hubClients,
                   hubTools, cachedTools, onToolsRefreshed, sessions, createPc,
                   createRet, deleteRet, bundleExists, serverDirs, sessionMu,
                   workers, refreshSeq>>

\* RefreshServerTools: ListTools answers or fails, the filtered list replaces
\* client.tools, the cache is dropped, and the deferred Unlock runs
RefreshListed(listOk) ==
    /\ refresher.pc = "listing"
    /\ hubMu = RefresherId
    /\ hubMu' = 0
    /\ IF listOk /\ conns[refresher.server] = "open"
       THEN /\ hubTools' = [hubTools EXCEPT ![refresher.server] =
                               filterTools(upstream[refresher.server])]
            /\ cachedTools' = NilCache
            /\ refreshSeq' = refreshSeq + 1
            /\ refreshed' = [refreshed EXCEPT ![refresher.server] = Counted(@)]
            /\ refresher' = [refresher EXCEPT !.pc = "done", !.ret = ""]
       ELSE /\ refresher' = [refresher EXCEPT !.pc = "done",
                                              !.ret = "failed to refresh tools"]
            /\ UNCHANGED <<hubTools, cachedTools, refreshSeq, refreshed>>
    /\ UNCHANGED <<fsVars, pureVars, listVars, execVars, sfsVars, mgrVars, calls,
                   workVars, upstream, conns, closeInvoked, hubClients, onToolsRefreshed,
                   sessions, createPc, createRet, deleteRet, bundleExists,
                   serverDirs, sessionMu, workers, explicitCalls>>

\* the caller of RefreshServerTools has its answer
RefreshReturn ==
    /\ refresher.pc = "done"
    /\ refresher' = IdleRefresher
    /\ UNCHANGED <<fsVars, sessVars, hubCallVars, pureVars, listVars, execVars,
                   sfsVars, mgrVars, refreshed, workVars>>

\* McpClientHub.CallTool: the lookup of the client under ch.mu.RLock(); the
\* request to the server follows without the lock
HubCallTool(c, s) ==
    /\ calls[c].pc = "idle"
    /\ hubMu = 0
    /\ calls' = [calls EXCEPT ![c] =
           [@ EXCEPT !.pc = IF s \in hubClients THEN "calltool" ELSE "idle"]]
    /\ UNCHANGED <<fsVars, sessVars, pureVars, listVars, execVars, sfsVars,
                   refreshVars, workVars, mgrVars, hubMu>>

\* client.CallTool has returned
HubCallToolReturn(c) ==
    /\ calls[c].pc = "calltool"
    /\ calls' = [calls EXCEPT ![c] = IdleCall]
    /\ UNCHANGED <<fsVars, sessVars, pureVars, listVars, execVars, sfsVars,
                   refreshVars, workVars, mgrVars, hubMu>>

RefreshNext ==
    \/ \E s \in Servers, c \in Catalogs : ServerChangesTools(s, c)
    \/ \E s \in Servers : RefreshLock(s)
    \/ \E listOk \in BOOLEAN : RefreshListed(listOk)
    \/ RefreshReturn
    \/ \E c \in Callers, s \in Servers : HubCallTool(c, s)
    \/ \E c \in Callers : HubCallToolReturn(c)
    \/ \E c \in Callers : ToolsFast(c)
    \/ \E c \in Callers : ToolsLock(c)
    \/ \E c \in Callers : ToolsFill(c)
    \/ \E c \in Callers : ToolsDone(c)
    \/ \E s \in Servers : ListDirStart(s)
    \/ ListDirRead
    \/ ListDirDone

(***************************************************************************)
(* The execute_code handler's resources: Bundler.Bundle creates the work   *)
(* directory <bundle>/work/<workID> and removes it by a deferred           *)
(* os.RemoveAll; the handler creates the sandbox and closes it by a        *)
(* deferred Close.                                                         *)
(***************************************************************************)
\* generateWorkID: 8 bytes of crypto/rand in hex, or the error of rand.Read
generateWorkID(randOk) == IF randOk THEN WorkIDs ELSE {""}

\* Bundle: generateWorkID, os.MkdirAll(workDir) (no error when the directory
\* exists already), and the deferred os.RemoveAll(workDir) is registered
BundleStart(i, randOk, mkdirOk) ==
    /\ invocations[i].pc = "idle"
    /\ bundleExists
    /\ \E id \in generateWorkID(randOk) :
          IF ~randOk
          THEN /\ invocations' = [invocations EXCEPT ![i] =
                     [IdleInvocation EXCEPT !.pc = "returned",
                          !.err = "bundling failed: failed to generate work ID"]]
               /\ UNCHANGED workDirs
          ELSE IF ~mkdirOk
          THEN /\ invocations' = [invocations EXCEPT ![i] =
                     [IdleInvocation EXCEPT !.pc = "returned",
                          !.err = "bundling failed: failed to create work dir"]]
               /\ UNCHANGED workDirs
          ELSE /\ invocations' = [invocations EXCEPT ![i] =
                     [IdleInvocation EXCEPT !.pc = "bundling", !.workID = id]]
               /\ workDirs' = workDirs \cup {id}
    /\ UNCHANGED <<fsVars, sessVars, hubCallVars, pureVars, listVars, execVars,
                   sfsVars, mgrVars, refreshVars>>

\* Bundle returns: the symlinks, index.ts, rspack and the reads of its output
\* succeeded or one of them failed; the deferred os.RemoveAll(workDir) runs
BundleReturn(i, bundleOk) ==
    /\ invocations[i].pc = "bundling"
    /\ workDirs' = workDirs \ {invocations[i].workID}
    /\ invocations' = [invocations EXCEPT ![i] =
           IF bundleOk THEN [@ EXCEPT !.pc = "bundled"]
           ELSE [@ EXCEPT !.pc = "returned", !.err = "bundling failed"]]
    /\ UNCHANGED <<fsVars, sessVars, hubCallVars, pureVars, listVars, execVars,
                   sfsVars, mgrVars, refreshVars>>

\* the handler creates the sandbox; on success the deferred sb.Close() is
\* registered
HandlerNewSandbox(i, sandboxOk) ==
    /\ invocations[i].pc = "bundled"
    /\ invocations' = [invocations EXCEPT ![i] =
           IF sandboxOk THEN [@ EXCEPT !.pc = "executing", !.sb = "open"]
           ELSE [@ EXCEPT !.pc = "returned", !.err = "failed to create sandbox"]]
    /\ UNCHANGED <<fsVars, sessVars, hubCallVars, pureVars, listVars, execVars,
                   sfsVars, mgrVars, refreshVars, workDirs>>

\* sb.ExecuteCode returns a result or an error, the handler returns and the
\* deferred sb.Close() runs
HandlerReturn(i, executeOk) ==
    /\ invocations[i].pc = "executing"
    /\ invocations' = [invocations EXCEPT ![i] =
           [@ EXCEPT !.pc = "returned", !.sb = "closed",
                     !.err = IF executeOk THEN "" ELSE "execution failed"]]
    /\ UNCHANGED <<fsVars, sessVars, hubCallVars, pureVars, listVars, execVars,
                   sfsVars, mgrVars, refreshVars, workDirs>>

\* the response has been sent
InvocationDone(i) ==
    /\ invocations[i].pc = "returned"
    /\ invocations' = [invocations EXCEPT ![i] = IdleInvocation]
    /\ UNCHANGED <<fsVars, sessVars, hubCallVars, pureVars, listVars, execVars,
                   sfsVars, mgrVars, refreshVars, workDirs>>

WorkNext ==
    \/ \E i \in Invocations, randOk, mkdirOk \in BOOLEAN : BundleStart(i, randOk, mkdirOk)
    \/ \E i \in Invocations, bundleOk \in BOOLEAN : BundleReturn(i, bundleOk)
    \/ \E i \in Invocations, sandboxOk \in BOOLEAN : HandlerNewSandbox(i, sandboxOk)
    \/ \E i \in Invocations, executeOk \in BOOLEAN : HandlerReturn(i, executeOk)
    \/ \E i \in Invocations : InvocationDone(i)

SessNext ==
    \/ \E opened \in SUBSET Servers, failing \in SUBSET Servers, leak \in BOOLEAN :
          Connect(opened, failing, leak)
    \/ \E ioErr \in BOOLEAN : CreateInit(ioErr)
    \/ CreateSubscribe
    \/ CreateRegister
    \/ \E closeErrs \in SUBSET Servers : DeleteSession(closeErrs)
    \/ \E s \in Servers, c \in Catalogs : ToolListChanged(s, c)
    \/ \E w \in Workers, listOk \in BOOLEAN : WorkerRefresh(w, listOk)
    \/ \E w \in Workers : WorkerCallback(w)
    \/ \E w \in Workers : RegenerateLock(w)
    \/ \E w \in Workers : RegenerateRemoveAll(w)
    \/ \E w \in Workers : RegenerateMkdir(w)
    \/ \E w \in Workers : RegenerateWrite(w)
    \/ \E s \in Servers, listOk \in BOOLEAN : ExplicitRefresh(s, listOk)
    \/ \E listOk \in SUBSET Servers : RefreshAllServerTools(listOk)

FsNext ==
    \/ \E p \in InputPaths, c \in Contents : WriteFile(p, c)
    \/ \E p \in InputPaths : DeleteFile(p)

\* the operations of the Sandbox FS on a read-only directory
SpecSfs == SfsInit /\ [][SfsNext]_vars

\* concurrent first references to one session id
SpecManager == SessInit /\ [][MgrNext]_vars

\* the Sandbox FS directory alone
SpecFS == FsInit /\ [][FsNext]_vars

\* the pure functions, each applied to one input
SpecPure == PureInit /\ [][PureNext]_vars

\* execute_code requests of a registered session: the plugin keeps running
\* the code, the clock keeps ticking and responses are sent
SpecExec ==
    /\ HubInit
    /\ [][ExecNext]_vars
    /\ WF_vars(PluginStep)
    /\ WF_vars(PluginReturn)
    /\ WF_vars(Tick)
    /\ WF_vars(ExecuteCodeDone)

\* list_directory on the servers of a registered session
SpecList == HubInit /\ [][ListNext]_vars

\* execute_code invocations of a registered session, running together
SpecWork == HubInit /\ [][WorkNext]_vars

\* a refresh of the hub step by step, beside the hub's callers
SpecRefresh == HubInit /\ [][RefreshNext]_vars

\* the hub of a registered session and the callers of Tools
SpecHub == HubInit /\ [][HubNext]_vars

\* the session, its hub and its generated tree
SpecSession == SessInit /\ [][SessNext]_vars

(***************************************************************************)
(* Claims about the Sandbox FS directory (SpecFS).                         *)
(***************************************************************************)
\* C1: after any sequence of successful writes and deletes the files on disk
\* under the directory root number at most MaxFiles, their sizes sum to at
\* most MaxTotalSize, and each file is at most MaxFileSize long.
C1_QuotaHolds ==
    /\ Cardinality(WalkFiles(nodes)) <= MaxFiles
    /\ SumSizes(nodes, WalkFiles(nodes)) <= MaxTotalSize
    /\ \A p \in WalkFiles(nodes) : Len(nodes[p].content) <= MaxFileSize

\* C2: the running stats agree with the disk: the recorded file count is the
\* number of files under the root and the recorded aggregate bytes is the sum
\* of their sizes, as a fresh recalculation walk would produce.
C2_StatsAgreeWithDisk ==
    /\ stats.FileCount = recalculateStats(nodes).FileCount
    /\ stats.TotalBytes = recalculateStats(nodes).TotalBytes

(***************************************************************************)
(* Claims about the session, its hub and the generated tree (SpecSession). *)
(***************************************************************************)
\* the worker is between its refresh and the return of the session's handler
InFlight(wk) == wk.pc \in {"refresh", "callback", "regenerate", "removeall",
                           "mkdir", "write"}
\* the worker is inside regenerateLibForServer
InHandler(wk) == wk.pc \in {"regenerate", "removeall", "mkdir", "write"}

\* C3: when the handler of a notification for server s returns (the refresh
\* succeeded and the handler ran), the workspace still exists, no other
\* notification for s is still being processed and no direct refresh call
\* was made, the files of servers/<s>/ are exactly one module file per tool
\* of the hub's catalog of s plus index.ts.
C3_TreeIsCatalogAfterHandler ==
    [][\A w \in Workers :
         (/\ InHandler(workers[w])
          /\ workers'[w].pc = "done"
          /\ bundleExists'
          /\ explicitCalls' = 0
          /\ \A x \in Workers \ {w} :
                workers'[x].server = workers[w].server => ~InFlight(workers'[x]))
         => LET s == workers[w].server
            IN /\ serverDirs'[s].exists
               /\ FileNames(serverDirs'[s]) = FileNames(ServerTree(s, hubTools'[s]))]_vars

\* C4: once every notification of server s of a registered session has been
\* processed with a successful refresh and a call of the handler, and no
\* direct refresh call was made, list_directory (the hub's catalog of s) shows
\* the server's current tool list and servers/<s>/ on disk is the tree
\* generated from it.
C4_ProcessedNotificationsReflected ==
    \A s \in Servers :
       (/\ SessionID \in sessions
        /\ bundleExists
        /\ explicitCalls = 0
        /\ \E w \in Workers : workers[w].server = s
        /\ \A w \in Workers :
              workers[w].server = s =>
                 /\ workers[w].pc = "done"
                 /\ workers[w].res \notin {"failed to auto-refresh", "no callback"})
       => /\ hubTools[s] = filterTools(upstream[s])
          /\ serverDirs[s] = ServerTree(s, hubTools[s])

\* C5: while the session is registered, servers/<s>/ of every server of the
\* hub is the complete tree generated from some catalog of s: never missing,
\* empty or partly written.
C5_TreeNeverPartial ==
    (SessionID \in sessions /\ bundleExists) =>
       \A s \in hubClients :
          \E c \in Catalogs :
             GeneratesOk(filterTools(c)) /\ serverDirs[s] = ServerTree(s, filterTools(c))

\* C6: when GetOrCreateSession has returned the connect-all failure, every
\* client the call had opened before the failing one is closed.
C6_ConnectAllOrNothing ==
    createRet = "failed to connect client hub" =>
       \A s \in hubClients : conns[s] # "open"
\* C7: a failed GetOrCreateSession leaves no registry entry and no workspace
\* directory; after a successful one, until Close is invoked on its hub, the
\* session holds an open client for every configured server.
C7_NoPartialSession ==
    /\ createPc = "failed" =>
          /\ SessionID \notin sessions
          /\ ~bundleExists
          /\ \A s \in Servers : serverDirs[s] = NoDir
    /\ (createRet = "ok" /\ closeInvoked = {}) =>
          /\ hubClients = Servers
          /\ \A s \in Servers : conns[s] = "open"

\* C7 witness: creation failed in initializeSessionBundleDir, after the hub
\* had connected to every server
C7_InitFailed ==
    /\ createPc = "failed"
    /\ createRet = "failed to initialize session bundle directory"
    /\ hubClients = Servers

\* C8: after DeleteSession of a registered session has returned, Close was
\* invoked on every client of its hub, the workspace is gone and the id is
\* not in the registry, whatever the Close calls returned.
C8_DestroyReleasesAll ==
    deleteRet.from = "live" =>
       /\ hubClients \subseteq closeInvoked
       /\ ~bundleExists
       /\ SessionID \notin sessions

\* C9: DeleteSession for an id that was already closed returns without error.
C9_CloseIdempotent ==
    deleteRet.from = "closed" => deleteRet.err = ""

\* C10: whenever a refresh completes while the handler is registered, the
\* refresh hands over to the call of the handler, be it a worker's refresh or
\* a direct RefreshServerTools / RefreshAllServerTools call.
C10_HandlerOnEveryRefresh ==
    [][(refreshSeq' # refreshSeq /\ onToolsRefreshed) =>
          \E w \in Workers :
             workers[w].pc = "refresh" /\ workers'[w].pc = "callback"]_vars
(***************************************************************************)
(* Claims about McpClientHub.Tools (SpecHub).                              *)
(***************************************************************************)
\* C11: a Tools call returns, for every server, the catalog its client holds
\* when the call returns: a refresh that completed before has invalidated the
\* cached map, so no call returns a list (an empty one included) that differs
\* from the client's.
C11_ToolsReturnsCurrentCatalog ==
    [][\A c \in Callers :
          (calls[c].pc # "done" /\ calls'[c].pc = "done")
          => calls'[c].ret = [s \in hubClients |-> hubTools'[s]]]_vars

\* C11 witness: a call returned the catalog a refresh had installed for a
\* server (the tree on disk still shows the one before)
C11_ReturnedAfterRefresh ==
    \E c \in Callers, s \in Servers :
       /\ calls[c].pc = "done"
       /\ refreshSeq > 0
       /\ calls[c].ret[s] = hubTools[s]
       /\ serverDirs[s] # ServerTree(s, hubTools[s])

\* C12: every map Tools returns, and every map it caches, has an entry for
\* every client of the hub, each entry a whole tool list: never a map that
\* is still being filled.
C12_ToolsSnapshotComplete ==
    /\ \A c \in Callers :
          calls[c].pc = "done" =>
             /\ DOMAIN calls[c].ret = hubClients
             /\ \A s \in hubClients :
                   \E cat \in Catalogs : calls[c].ret[s] = filterTools(cat)
    /\ cachedTools.valid => DOMAIN cachedTools.tools = hubClients

\* C12 witness: two callers racing with a refresh hold different snapshots,
\* one of them built while the other was still in use
C12_TwoSnapshots ==
    \E c, d \in Callers :
       /\ calls[c].pc = "done"
       /\ calls[d].pc = "done"
       /\ calls[c].ret # calls[d].ret
(***************************************************************************)
(* Claims about pure functions (SpecPure).                                 *)
(***************************************************************************)
\* C13: the module file of a tool is named on disk by the camelCase
\* conversion that splits on underscore, hyphen and space, and that name is
\* the entry list_directory shows and the file the server's index re-exports.
C13_OneNamePerTool ==
    pureOut.fn = "names" =>
       /\ pureOut.disk = ToCamelCase(pureIn.name) \o <<".ts">>
       /\ pureOut.disk = pureOut.listed
       /\ pureOut.disk = pureOut.exported
(***************************************************************************)
(* Claims about list_directory (SpecList).                                 *)
(***************************************************************************)
\* C14: what list_directory("/servers/<s>") prints is one camelCased name per
\* tool of the catalog the client of s holds (when the call starts or when
\* it returns), none missing and none extra, and then one index entry.
C14_ListingIsCatalog ==
    lister.pc = "done" =>
       lister.out \in {Listing(lister.seen), Listing(lister.cur)}
\* C15: the call a generated stub makes goes to the client registered under
\* the name of the server the stub was generated for, and to no other, with
\* the original name of the stub's tool.
C15_StubCallsItsServer ==
    (pureOut.fn = "stub" /\ pureOut.call.err = "") =>
       /\ pureOut.call.server = pureIn.server
       /\ pureOut.call.tool = pureIn.tool
\* C16: a file read_file returns lies in the session's generated tree or in
\* a Sandbox FS directory, and for a path under servers/ it lies in the
\* generated tree.
C16_ReadStaysInTree ==
    (pureOut.fn = "read" /\ pureOut.err = "") =>
       /\ \/ HasPrefix(pureOut.file, GeneratedTree)
          \/ HasPrefix(pureOut.file, WorkspaceTree)
       /\ HasPrefix(TrimPrefix(pureIn.path, <<"/">>), <<"servers", "/">>)
             => HasPrefix(pureOut.file, GeneratedTree)

\* C17: a response of the callMcpTool host callback has exactly one of result
\* and error non-empty: the error for a transport error, an unknown server
\* and a result with the is-error flag, the result for a successful call.
C17_ExactlyOneOfResultAndError ==
    pureOut.fn = "host" =>
       LET failed == \/ ~pureIn.known
                     \/ pureIn.transportErr
                     \/ pureIn.result.IsError
       IN /\ failed => (pureOut.response.Error # "" /\ pureOut.response.Result = "")
          /\ ~failed => (pureOut.response.Result # "" /\ pureOut.response.Error = "")

(***************************************************************************)
(* Claims about execute_code (SpecExec).                                   *)
(***************************************************************************)
\* C18: an execute_code call that is still running when the deadline has
\* passed ends with the execution-timeout error, whether the request was
\* cancelled or not.
C18_TimeoutEndsExecution ==
    (exec.pc = "run" /\ elapsed >= ExecutionTimeout)
        ~> (exec.pc = "done" /\ exec.ret = "execution-timeout")

\* C19: an execute_code call whose request is cancelled while the code runs
\* ends with the cancelled error.
C19_CancelEndsExecution ==
    (exec.pc = "run" /\ cancelled) ~> (exec.pc = "done" /\ exec.ret = "cancelled")

\* C20: a Sandbox FS operation given a path that contains ".." returns an
\* error without a file system call, and the path any operation makes a
\* file system call on lies in the directory's root.
C20_TraversalRejected ==
    pureOut.fn = "fs" =>
       /\ Contains(pureIn.path, DotDot) => (pureOut.err # "" /\ pureOut.accessed = {})
       /\ \A p \in pureOut.accessed :
             /\ HasPrefix(SplitSlash(p), <<<<>>, <<"r">>>>)
             /\ DotDot \notin {SplitSlash(p)[i] : i \in 1..Len(SplitSlash(p))}

\* a path with ".." was given to an operation and rejected (C20)
C20_RejectedTraversal ==
    /\ pureOut.fn = "fs"
    /\ pureIn.path = <<"workspace", "/", ".", ".", "/", "x">>
    /\ pureOut.err = "path traversal not allowed"
(***************************************************************************)
(* Claims about the Sandbox FS operations (SpecSfs).                       *)
(***************************************************************************)
\* C21: on a read-only directory every write and every delete returns the
\* read-only error and leaves files and stats as they were, a read of a file
\* returns its content and a listing of a directory succeeds.
C21_ReadOnlyRejectsMutation ==
    [][readOnly =>
          /\ fsRet'.op \in {"write", "delete"} =>
                /\ fsRet'.err = "directory is read-only"
                /\ UNCHANGED <<nodes, stats>>
          /\ (fsRet'.op = "read" /\ fsRet'.path \in NodePaths
                 /\ nodes[fsRet'.path].kind = "file") =>
                /\ fsRet'.err = ""
                /\ fsData'.content = nodes[fsRet'.path].content
          /\ (fsRet'.op = "list" /\ fsRet'.path \in NodePaths
                 /\ nodes[fsRet'.path].kind = "dir") =>
                fsRet'.err = ""]_vars

\* a delete of an existing file was rejected on a read-only directory (C21)
C21_DeleteRejected ==
    /\ readOnly
    /\ fsRet = FsReturn("delete", <<"f">>, "directory is read-only")
    /\ nodes[<<"f">>].kind = "file"

(***************************************************************************)
(* Claims about concurrent GetOrCreateSession calls (SpecManager).         *)
(***************************************************************************)
\* C24: among concurrent first references to one unknown session id, at most
\* one setup is completed, and it is the one of the registered session; the
\* registry holds that one session, and every caller that succeeds has
\* received it.
C24_OneSessionPerId ==
    /\ Cardinality(created) <= 1
    /\ registry # 0 => created = {registry}
    /\ \A c \in Getters :
          (getters[c].pc = "done" /\ getters[c].err = "") =>
             (getters[c].ret # 0 /\ getters[c].ret = registry)

\* a first reference failed in its setup, a second one registered the
\* session, and a third one received the same session (C24)
C24_AllReceiveOne ==
    /\ \E c \in Getters : getters[c].pc = "done" /\ getters[c].err # ""
    /\ \E c, d \in Getters :
          /\ c # d
          /\ getters[c].pc = "done" /\ getters[c].err = ""
          /\ getters[d].pc = "done" /\ getters[d].err = ""
          /\ getters[c].ret = getters[d].ret

(***************************************************************************)
(* Further claims about the Sandbox FS directory (SpecFS).                 *)
(***************************************************************************)
\* C22: a write or delete that returns an error leaves the files on disk and
\* the stats as they were; one that succeeds changes the recorded file count
\* and aggregate bytes by exactly what it changed on disk.
C22_MutationAllOrNothing ==
    [][/\ fsRet'.err # "" => UNCHANGED <<nodes, stats>>
       /\ fsRet'.err = "" =>
             /\ stats'.FileCount - stats.FileCount
                   = recalculateStats(nodes').FileCount
                        - recalculateStats(nodes).FileCount
             /\ stats'.TotalBytes - stats.TotalBytes
                   = recalculateStats(nodes').TotalBytes
                        - recalculateStats(nodes).TotalBytes]_vars

\* C23: a write rejected for the file count leaves the files as they were, and
\* a write to a path that holds a file already is not rejected for the file
\* count and, when it succeeds, leaves the recorded file count unchanged.
C23_CountLimitOnlyForNewFiles ==
    [][fsRet'.op = "write" =>
          /\ fsRet'.err = "file count limit reached" => UNCHANGED nodes
          /\ (fsRet'.path \in NodePaths /\ nodes[fsRet'.path].kind = "file") =>
                /\ fsRet'.err # "file count limit reached"
                /\ fsRet'.err = "" => stats'.FileCount = stats.FileCount]_vars
(***************************************************************************)
(* Further claims about pure functions (SpecPure).                         *)
(***************************************************************************)
\* C25: after a client was opened or refreshed, no tool named by a reserved
\* identifier of the sandbox language is in its catalog, in the output of
\* Tools() or a file of the generated tree.
C25_NoReservedIdentifier ==
    pureOut.fn = "filter" =>
       \A r \in ReservedIdentifiers :
          /\ \A i \in 1..Len(pureOut.catalog) : pureOut.catalog[i] # r
          /\ \A i \in 1..Len(pureOut.grouped) : pureOut.grouped[i] # r
          /\ FunctionFileName(r) \notin pureOut.files

\* C26: for a config with a URL and no type tag, open connects over
\* streaming-http first and over server-sent-events only after the
\* streaming-http connect failed; open succeeds exactly when one of the two
\* connects succeeds; a config with an explicit tag connects over its own
\* transport only.  (As stated: refuted when the connect succeeds and the tool
\* listing fails.)
C26_OpenSucceedsIffConnected ==
    (pureOut.fn = "open" /\ validate(inferServerTypes(pureIn.server)) = "") =>
        LET cfg == inferServerTypes(pureIn.server)
            net == pureIn.net
        IN /\ cfg.Type = "" =>
                /\ pureOut.attempts[1] = "http"
                /\ Len(pureOut.attempts) = 2 => (~net.http /\ pureOut.attempts[2] = "sse")
                /\ pureOut.err = "" <=> (net.http \/ net.sse)
           /\ cfg.Type # "" => pureOut.attempts = <<cfg.Type>>

\* C26 (amended): as above, but open succeeds exactly when one of the two
\* connects succeeds and the tool listing over the connected transport
\* succeeds
C26_OpenSucceedsIffConnectedAndListed ==
    (pureOut.fn = "open" /\ validate(inferServerTypes(pureIn.server)) = "") =>
        LET cfg == inferServerTypes(pureIn.server)
            net == pureIn.net
        IN /\ cfg.Type = "" =>
                /\ pureOut.attempts[1] = "http"
                /\ Len(pureOut.attempts) = 2 => (~net.http /\ pureOut.attempts[2] = "sse")
                /\ ~net.http => Len(pureOut.attempts) = 2
                /\ pureOut.err = "" <=> ((net.http \/ net.sse) /\ net.list)
           /\ cfg.Type # "" =>
                /\ pureOut.attempts = <<cfg.Type>>
                /\ pureOut.err = "" <=> (net[cfg.Type] /\ net.list)

\* an untagged URL config whose streaming-http connect failed is open over
\* server-sent-events
C26_FellBackToSSE ==
    /\ pureOut.fn = "open"
    /\ pureIn.server = [Type |-> "", Command |-> FALSE, URL |-> TRUE]
    /\ pureOut.attempts = <<"http", "sse">>
    /\ pureOut.used = "sse"
    /\ pureOut.err = ""

\* C27: whenever the sandbox reports that user code raised an error, the
\* failure returned by execute_code contains the thrown value's message:
\* with a mappable stack, with an empty stack, and when the stack trace
\* cannot be mapped.
C27_FailureCarriesMessage ==
    (pureOut.fn = "run" /\ pureIn.result.Error # "") =>
        /\ pureOut.err # <<>>
        /\ Contains(pureOut.err, <<pureIn.result.Error>>)

\* C28: module generation is deterministic: converting a schema to a type
\* tree and emitting the module twice for the same server and tool gives
\* identical output, the order of the interface fields included.
C28_GenerationDeterministic ==
    pureOut.fn = "gen" => pureOut.out = pureOut.again

\* C29: in a generated module file every named type referenced by name (as a
\* field type or an array element type) is declared in that file, before its
\* first reference.
C29_DeclaredBeforeReferenced ==
    pureOut.fn = "gen" =>
        \A i \in DOMAIN pureOut.out :
            pureOut.out[i].t = "ref" =>
                \E j \in 1..(i - 1) : pureOut.out[j] = Tok("decl", pureOut.out[i].v)

\* C30: for an empty or absent input schema the module declares no argument
\* type and the stub passes {} to callTool; for a non-empty input schema the
\* module declares the argument type and the stub passes the caller's args.
C30_ArgsIffInputSchema ==
    pureOut.fn = "gen" =>
        LET argsDecl == Tok("decl", ToPascalCase(pureIn.tool.Name) \o <<"Args">>)
            declared == \E i \in DOMAIN pureOut.out : pureOut.out[i] = argsDecl
            passes(v) == \E i \in DOMAIN pureOut.out :
                            pureOut.out[i] = Tok("callTool", <<v>>)
        IN IF pureIn.tool.InputSchema.k \in {"nil", "empty"}
           THEN ~declared /\ passes("{}") /\ ~passes("args")
           ELSE declared /\ passes("args") /\ ~passes("{}")

\* the lines of a text: strings.Split(text, "\n") on its pieces
RECURSIVE Lines(_)
Lines(text) ==
    IF \A i \in DOMAIN text : text[i] # "\n" THEN <<text>>
    ELSE LET n == CHOOSE k \in DOMAIN text :
                    text[k] = "\n" /\ \A j \in 1..(k - 1) : text[j] # "\n"
         IN <<SubSeq(text, 1, n - 1)>> \o Lines(SubSeq(text, n + 1, Len(text)))

\* the stack trace in the failure of execute_code: what follows "stack trace:"
ReturnedTrace(err) ==
    LET n == CHOOSE k \in DOMAIN err : err[k] = "stack trace:"
    IN SubSeq(err, n + 1, Len(err))

\* C31: in the stack trace returned to the caller of execute_code every frame
\* that was not mapped (a native frame, a frame without a source-map hit) is
\* emitted exactly as its input line, nothing added or removed.
C31_UnmappedFramesAsIs ==
    (/\ pureOut.fn = "run"
     /\ pureIn.result.Error # ""
     /\ pureIn.result.Stack # <<>>
     /\ ParseOk(pureIn.sourceMap)) =>
        LET lines == Lines(ReturnedTrace(pureOut.err))
            stack == pureIn.result.Stack
        IN /\ Len(lines) = Len(stack)
           /\ \A i \in DOMAIN stack : ~Mapped(stack[i]) => lines[i] = <<stack[i]>>

(***************************************************************************)
(* Further claims about the hub's refreshes (SpecHub).                     *)
(***************************************************************************)
\* C32: a refresh of a server that succeeds after an earlier successful
\* refresh of it, the server's tool list not having changed in between,
\* leaves the server's catalog as the earlier refresh left it, and it
\* invalidates the grouped cache again, so that the next Tools call rebuilds
\* the map.
C32_RefreshIdempotent ==
    [][\A s \in Servers :
          (refreshed[s] >= 1 /\ refreshed'[s] = refreshed[s] + 1) =>
              /\ hubTools'[s] = hubTools[s]
              /\ hubTools'[s] = filterTools(upstream[s])
              /\ ~cachedTools'.valid]_vars

\* C32 witness: a server was refreshed twice with no change of its tool list
\* in between, the map was built after the first refresh, and the second
\* refresh has invalidated it
C32_RefreshedTwice ==
    \E s \in Servers, c \in Callers :
       /\ refreshed[s] = 2
       /\ calls[c].pc = "done"
       /\ calls[c].ret[s] = hubTools[s]
       /\ serverDirs[s] # ServerTree(s, hubTools[s])
       /\ ~cachedTools.valid

\* C33: when the refresh a notification started fails (the tool listing
\* fails or times out, or the server is unknown), the worker ends without
\* calling the subscriber, the catalogs and the grouped map stay as they
\* were, the hub's lock is free for calls and catalog reads, and the server
\* can notify again and have a new worker refresh it.
C33_FailedRefreshChangesNothing ==
    [][\A w \in Workers :
          (workers[w].pc = "refresh" /\ workers'[w].res = "failed to auto-refresh") =>
              /\ workers'[w].pc = "done"
              /\ UNCHANGED <<hubTools, cachedTools, hubClients, conns, refreshed>>
              /\ hubMu' = 0
              /\ HubUp /\ workers[w].server \in hubClients'
              /\ conns'[workers[w].server] = "open"]_vars

\* C33 witness: a worker's refresh of a server failed, a Tools call returned
\* the map built from the catalog it left alone, and the worker of a second
\* notification of the server has refreshed it
C33_RetriedAfterFailure ==
    \E w, v \in Workers, c \in Callers :
       /\ w < v
       /\ workers[w].res = "failed to auto-refresh"
       /\ workers[v].server = workers[w].server
       /\ workers[v].pc = "callback"
       /\ calls[c].pc = "done"
       /\ calls[c].ret[workers[w].server] # hubTools[workers[w].server]

(***************************************************************************)
(* Claims about a refresh in progress (SpecRefresh, SpecList).             *)
(***************************************************************************)
\* C34: while a refresh waits for the downstream server's tool list, hub
\* tool calls, Tools calls and ServerTools reads, for that server and for
\* the others, can start: the refresh excludes them only while it replaces
\* the catalog.
C34_CallsStartDuringListing ==
    refresher.pc = "listing" =>
        /\ \A c \in Callers :
              calls[c].pc = "idle" =>
                 /\ ENABLED ToolsFast(c)
                 /\ \A s \in Servers : ENABLED HubCallTool(c, s)
        /\ lister.pc = "idle" => \A s \in Servers : ENABLED ListDirStart(s)

\* C35: every read of a client's catalog through the hub happens while the
\* hub's read or write lock is held by the reader: ServerTools never finishes
\* its read of client.tools while a refresh holds the write lock.
C35_CatalogReadUnderLock ==
    [][(lister.pc = "read" /\ lister'.pc = "done") => hubMu = 0]_vars

(***************************************************************************)
(* Claims about the resources of execute_code (SpecWork).                  *)
(***************************************************************************)
\* C36: whatever the outcome of an execute_code invocation, when it returns
\* its sandbox is closed and the step that ends its bundling has removed its
\* work directory; invocations running together use distinct work
\* directories, and the work directory of an invocation that is bundling
\* exists: no other invocation removes it.
C36_WorkResourcesReleased ==
    [][/\ \A i \in Invocations :
            /\ (invocations[i].pc = "bundling" /\ invocations'[i].pc # "bundling")
                   => invocations[i].workID \notin workDirs'
            /\ invocations'[i].pc = "returned" => invocations'[i].sb # "open"
            /\ invocations'[i].pc = "bundling" => invocations'[i].workID \in workDirs'
       /\ \A i, j \in Invocations :
            (i # j /\ invocations'[i].pc = "bundling" /\ invocations'[j].pc = "bundling")
                => invocations'[i].workID # invocations'[j].workID]_vars

(***************************************************************************)
(* Claims about the schema converter (SpecPure).                           *)
(***************************************************************************)
\* the names of the properties of the interface members of an allOf
MemberProperties(schema) ==
    UNION {DOMAIN schema.allOf[i].properties :
              i \in {j \in DOMAIN schema.allOf :
                        schema.allOf[j].k = "object" /\ schema.allOf[j].hasProperties}}

\* C37: a schema with no type and an allOf converts to one object type whose
\* fields are the union of the members' properties, each name exactly once,
\* a field being required iff at least one member lists it as required.
C37_AllOfFlattened ==
    (pureIn.fn = "allOf" /\ pureOut # NoOut) =>
        LET fields == pureOut.type.Properties
            s == pureIn.schema
        IN /\ pureOut.type.Kind = "interface"
           /\ {fields[i].Name : i \in DOMAIN fields} = MemberProperties(s)
           /\ \A i, j \in DOMAIN fields : fields[i].Name = fields[j].Name => i = j
           /\ \A i \in DOMAIN fields :
                 ~fields[i].IsOptional <=>
                     \E m \in DOMAIN s.allOf :
                        /\ s.allOf[m].k = "object" /\ s.allOf[m].hasProperties
                        /\ fields[i].Name \in s.allOf[m].required

(***************************************************************************)
(* Claims about notifications around the creation and the deletion of the  *)
(* session (SpecSession).                                                  *)
(***************************************************************************)
\* C38: a tools-changed notification delivered after the hub connected and
\* before the regeneration handler is subscribed is not lost: once the
\* creation has returned and the notification's refresh has completed (no
\* other notification or refresh having run), servers/<s>/ on disk is the
\* tree of the hub's catalog of s.
C38_EarlyNotificationNotLost ==
    \A w \in Workers :
        (/\ createPc = "live" /\ SessionID \in sessions
         /\ workers[w].pc = "done" /\ workers[w].res = "no callback"
         /\ \A v \in Workers \ {w} : workers[v].pc = "idle"
         /\ explicitCalls = 0)
            => serverDirs[workers[w].server] =
                   ServerTree(workers[w].server, hubTools[workers[w].server])

C40_OneModuleFilePerTool ==
    (pureIn.fn = "tree" /\ pureOut # NoOut) =>
        /\ Cardinality({f \in pureOut.dir.files : f.content.kind = "function"})
               = Len(pureIn.tools)
        /\ \A i \in DOMAIN pureIn.tools :
              [name |-> FunctionFileName(pureIn.tools[i]),
               content |-> FunctionFile("s1", pureIn.tools[i])] \in pureOut.dir.files

====
